---- MODULE Spec2Model ----
(***************************************************************************)
(* A model of the elasticsearch client (client.go, structs.go).            *)
(*                                                                         *)
(* The client is a value holding a base URL.  Every API method builds a    *)
(* URL, calls the transport helper sendHTTPRequest (IndexExists calls      *)
(* http.Client.Head itself) and decodes the JSON answer into a struct.     *)
(*                                                                         *)
(* Texts on the wire are modelled structurally: a response body is either  *)
(* a JSON object (a sequence of members, nested objects and arrays of      *)
(* objects included), possibly followed by more text, or a text that is no *)
(* JSON object: another JSON value, or no JSON at all.  json.Unmarshal is  *)
(* modelled member by member, with Go's rules: unknown keys are skipped,   *)
(* null leaves the field alone, a member of the wrong type is skipped and  *)
(* reported as the error, later members are still decoded.                 *)
(*                                                                         *)
(* Every method is split at the points where its code waits for the        *)
(* network: the call is made and its request sent, the server answers, the *)
(* method returns.  Other steps may happen while a request is in flight: a *)
(* refresh of the engine, and the calls of the other goroutines where the  *)
(* client is shared.  The HTTP client may send a request again on its own  *)
(* (a redirect it follows, a stale connection) before it hands an answer   *)
(* or an error to the method.                                              *)
(***************************************************************************)
EXTENDS Integers, Sequences, FiniteSets, TLC

VARIABLES
    Host,       \* client.Host, the base URL set at construction
    indices,    \* engine: the set of existing index names
    docs,       \* engine: docs[index][id] = version of the document, 0 = none
    searchable, \* engine: searchable[index] = the documents a search sees
    aliases,    \* engine: aliases[alias] = set of indices the alias points to
    mappings,   \* engine: mappings[index] = the types a mapping was put for
    templates,  \* engine: the names of the stored search templates
    calls,      \* calls[g] = the call goroutine g is making, and how far it got
    last,       \* the call that returned last, none while the next is running
                \* (where one alias is shared: the update the engine applied last)
    prev        \* history: a call that returned before it

vars == <<Host, indices, docs, searchable, aliases, mappings, templates,
          calls, last, prev>>

---------------------------------------------------------------------------
(* Bounds of the model *)

MinStatus == 100
MaxStatus == 599
MaxVersion == 2
MaxQueries == 2
MaxList == 2
MaxBulk == 2
MaxResent == 1

---------------------------------------------------------------------------
(* net/http status constants used by client.go *)

StatusOK == 200
StatusCreated == 201
StatusNotFound == 404

---------------------------------------------------------------------------
(* JSON texts *)

\* One member "k": value of a JSON object.  t is the JSON type of the value;
\* b, n, s, o, e hold the value for t = bool, num, str, obj (nested members),
\* arr (array of objects, each a sequence of members).
Member(k, t, b, n, s, o, e) ==
    [k |-> k, t |-> t, b |-> b, n |-> n, s |-> s, o |-> o, e |-> e]

Bool(k, b) == Member(k, "bool", b, 0, "", <<>>, <<>>)
Num(k, n)  == Member(k, "num", FALSE, n, "", <<>>, <<>>)
Str(k, s)  == Member(k, "str", FALSE, 0, s, <<>>, <<>>)
Obj(k, o)  == Member(k, "obj", FALSE, 0, "", o, <<>>)
Arr(k, e)  == Member(k, "arr", FALSE, 0, "", <<>>, e)
Null(k)    == Member(k, "null", FALSE, 0, "", <<>>, <<>>)

\* A text: a JSON object with members ms (wf), followed by the text raw; or
\* the text raw alone, which is no JSON object (the empty body, an HTML page,
\* null, a bare array, a number, a string, a boolean).
Json(ms)   == [wf |-> TRUE, ms |-> ms, raw |-> ""]
Plain(raw) == [wf |-> FALSE, ms |-> <<>>, raw |-> raw]
Trailed(ms, raw) == [wf |-> TRUE, ms |-> ms, raw |-> raw]
NoText     == Plain("")

\* The JSON value a text starts with, as the scanner of encoding/json sees
\* it: "empty" for no text at all, "invalid" for a text that is no JSON.
Kind(text) ==
    IF text.wf THEN "object"
    ELSE CASE text.raw = ""     -> "empty"
           [] text.raw = "null" -> "null"
           [] text.raw = "[]"   -> "array"
           [] text.raw = "1"    -> "number"
           [] text.raw = "\"x\"" -> "string"
           [] text.raw = "true" -> "bool"
           [] OTHER             -> "invalid"

\* The whole text is one JSON value (what json.Unmarshal checks first).
Valid(text) ==
    IF text.wf THEN text.raw = "" ELSE Kind(text) \notin {"empty", "invalid"}

\* A []byte: nil, or a slice holding a text.
NilBytes    == [isnil |-> TRUE, text |-> NoText]
Bytes(text) == [isnil |-> FALSE, text |-> text]

\* An error value: nil, or an error of some kind carrying a message text.
ErrNil         == [kind |-> "nil", text |-> NoText]
Error(kind)    == [kind |-> kind, text |-> NoText]
errorsNew(txt) == [kind |-> "errorString", text |-> txt]

---------------------------------------------------------------------------
(* structs.go: the response structures and their JSON field tags *)

\* nil maps and nil slices, and the values a decode stores in them
NilMap      == [isnil |-> TRUE, o |-> <<>>]
MapOf(o)    == [isnil |-> FALSE, o |-> o]
NilSlice    == [isnil |-> TRUE, e |-> <<>>]
SliceOf(e)  == [isnil |-> FALSE, e |-> e]

\* A struct field: its Go name f, its kind t (bool, num, str, raw for a
\* json.RawMessage, map for a map[string]interface{}, obj for a nested
\* struct, arr for a slice of structs) and, for obj and arr, the struct sub.
Field(f, t, sub) == [f |-> f, t |-> t, sub |-> sub]

Response ==
    [Acknowledged |-> FALSE, Error |-> "", Status |-> 0]
Settings ==
    [Shards |-> NilMap, Indices |-> NilMap]
InsertDocument ==
    [Created |-> FALSE, Index |-> "", Type |-> "", ID |-> "", Version |-> 0]
Document ==
    [Index |-> "", Type |-> "", ID |-> "", Version |-> 0, Found |-> FALSE,
     Source |-> ""]
BulkCreate ==
    [Index |-> "", Type |-> "", ID |-> "", Status |-> 0, Error |-> ""]
BulkIndex ==
    [Index |-> "", Type |-> "", ID |-> "", Version |-> 0, Status |-> 0,
     Error |-> ""]
BulkItem ==
    [Create |-> BulkCreate, Index |-> BulkIndex]
Bulk ==
    [Took |-> 0, Errors |-> FALSE, Items |-> NilSlice]
SearchShards ==
    [Total |-> 0, Successful |-> 0, Failed |-> 0]
SearchHit ==
    [Index |-> "", Type |-> "", ID |-> "", Score |-> 0, Source |-> ""]
SearchHits ==
    [Total |-> 0, MaxScore |-> 0, Hits |-> NilSlice]
SearchResult ==
    [Took |-> 0, TimedOut |-> FALSE, Shards |-> SearchShards, Hits |-> SearchHits]
MSearchResult ==
    [Responses |-> NilSlice]

\* The zero value of each struct type.
Zero(type) ==
    CASE type = "Response"       -> Response
      [] type = "Settings"       -> Settings
      [] type = "InsertDocument" -> InsertDocument
      [] type = "Document"       -> Document
      [] type = "BulkCreate"     -> BulkCreate
      [] type = "BulkIndex"      -> BulkIndex
      [] type = "BulkItem"       -> BulkItem
      [] type = "Bulk"           -> Bulk
      [] type = "SearchShards"   -> SearchShards
      [] type = "SearchHit"      -> SearchHit
      [] type = "SearchHits"     -> SearchHits
      [] type = "SearchResult"   -> SearchResult
      [] type = "MSearchResult"  -> MSearchResult

\* A faulty variant: the _type and _id tags exchanged.
InsertDocumentTags_idFromType ==
    ("created"  :> Field("Created", "bool", "")) @@
    ("_index"   :> Field("Index", "str", "")) @@
    ("_type"    :> Field("ID", "str", "")) @@
    ("_id"      :> Field("Type", "str", "")) @@
    ("_version" :> Field("Version", "num", ""))

\* The json tags of the InsertDocument struct.
InsertDocumentTags ==
    ("created"  :> Field("Created", "bool", "")) @@
    ("_index"   :> Field("Index", "str", "")) @@
    ("_type"    :> Field("Type", "str", "")) @@
    ("_id"      :> Field("ID", "str", "")) @@
    ("_version" :> Field("Version", "num", ""))

\* The JSON key of each field of each struct type: the json tag, or the field
\* name (matched case-insensitively, written here in the engine's lower case).
Schema(type) ==
    CASE type = "Response" ->
            ("acknowledged" :> Field("Acknowledged", "bool", "")) @@
            ("error"        :> Field("Error", "str", "")) @@
            ("status"       :> Field("Status", "num", ""))
      [] type = "Settings" ->
            ("_shards" :> Field("Shards", "map", "")) @@
            ("indices" :> Field("Indices", "map", ""))
      [] type = "InsertDocument" -> InsertDocumentTags
      [] type = "Document" ->
            ("_index"   :> Field("Index", "str", "")) @@
            ("_type"    :> Field("Type", "str", "")) @@
            ("_id"      :> Field("ID", "str", "")) @@
            ("_version" :> Field("Version", "num", "")) @@
            ("found"    :> Field("Found", "bool", "")) @@
            ("_source"  :> Field("Source", "raw", ""))
      [] type = "BulkCreate" ->
            ("_index" :> Field("Index", "str", "")) @@
            ("_type"  :> Field("Type", "str", "")) @@
            ("_id"    :> Field("ID", "str", "")) @@
            ("status" :> Field("Status", "num", "")) @@
            ("error"  :> Field("Error", "str", ""))
      [] type = "BulkIndex" ->
            ("_index"   :> Field("Index", "str", "")) @@
            ("_type"    :> Field("Type", "str", "")) @@
            ("_id"      :> Field("ID", "str", "")) @@
            ("_version" :> Field("Version", "num", "")) @@
            ("status"   :> Field("Status", "num", "")) @@
            ("error"    :> Field("Error", "str", ""))
      [] type = "BulkItem" ->
            ("create" :> Field("Create", "obj", "BulkCreate")) @@
            ("index"  :> Field("Index", "obj", "BulkIndex"))
      [] type = "Bulk" ->
            ("took"   :> Field("Took", "num", "")) @@
            ("errors" :> Field("Errors", "bool", "")) @@
            ("items"  :> Field("Items", "arr", "BulkItem"))
      [] type = "SearchShards" ->
            ("total"      :> Field("Total", "num", "")) @@
            ("successful" :> Field("Successful", "num", "")) @@
            ("failed"     :> Field("Failed", "num", ""))
      [] type = "SearchHit" ->
            ("_index"  :> Field("Index", "str", "")) @@
            ("_type"   :> Field("Type", "str", "")) @@
            ("_id"     :> Field("ID", "str", "")) @@
            ("_score"  :> Field("Score", "num", "")) @@
            ("_source" :> Field("Source", "raw", ""))
      [] type = "SearchHits" ->
            ("total"     :> Field("Total", "num", "")) @@
            ("max_score" :> Field("MaxScore", "num", "")) @@
            ("hits"      :> Field("Hits", "arr", "SearchHit"))
      [] type = "SearchResult" ->
            ("took"      :> Field("Took", "num", "")) @@
            ("timed_out" :> Field("TimedOut", "bool", "")) @@
            ("_shards"   :> Field("Shards", "obj", "SearchShards")) @@
            ("hits"      :> Field("Hits", "obj", "SearchHits"))
      [] type = "MSearchResult" ->
            ("responses" :> Field("Responses", "arr", "SearchResult"))

---------------------------------------------------------------------------
(* encoding/json as client.go uses it *)

\* The JSON type a field of kind t accepts.
WireType(t) == IF t = "map" THEN "obj" ELSE t

\* The decoder keeps the first error and goes on decoding.
saveError(err, e) == IF err = ErrNil THEN e ELSE err

RECURSIVE decodeObject(_, _, _)
RECURSIVE decodeArray(_, _, _)
RECURSIVE decodeMember(_, _, _)

\* Decode the members ms into the struct st.v of the given type, in order.
decodeObject(type, st, ms) ==
    IF ms = <<>> THEN st
    ELSE decodeObject(type, decodeMember(type, st, Head(ms)), Tail(ms))

\* Decode the objects es into fresh elements of the given type, appended to
\* st.v.
decodeArray(type, st, es) ==
    IF es = <<>> THEN st
    ELSE LET r == decodeObject(type, [v |-> Zero(type), err |-> st.err], Head(es))
         IN  decodeArray(type, [v |-> Append(st.v, r.v), err |-> r.err], Tail(es))

\* Decode one member into its field: a key no field has is skipped, null
\* clears a map or slice and leaves other fields alone, a value of the wrong
\* JSON type is skipped and recorded as the error.
decodeMember(type, st, m) ==
    IF m.k \notin DOMAIN Schema(type) THEN st
    ELSE
      LET fd == Schema(type)[m.k] IN
      IF fd.t = "raw" THEN [st EXCEPT !.v[fd.f] = m.t]
      ELSE IF m.t = "null" THEN
        IF fd.t = "map" THEN [st EXCEPT !.v[fd.f] = NilMap]
        ELSE IF fd.t = "arr" THEN [st EXCEPT !.v[fd.f] = NilSlice]
        ELSE st
      ELSE IF m.t # WireType(fd.t) THEN
        [st EXCEPT !.err = saveError(@, Error("UnmarshalTypeError"))]
      ELSE IF fd.t = "bool" THEN [st EXCEPT !.v[fd.f] = m.b]
      ELSE IF fd.t = "num"  THEN [st EXCEPT !.v[fd.f] = m.n]
      ELSE IF fd.t = "str"  THEN [st EXCEPT !.v[fd.f] = m.s]
      ELSE IF fd.t = "map"  THEN [st EXCEPT !.v[fd.f] = MapOf(m.o)]
      ELSE IF fd.t = "obj"  THEN
        LET r == decodeObject(fd.sub, [v |-> st.v[fd.f], err |-> st.err], m.o)
        IN  [v |-> [st.v EXCEPT ![fd.f] = r.v], err |-> r.err]
      ELSE
        LET r == decodeArray(fd.sub, [v |-> <<>>, err |-> st.err], m.e)
        IN  [v |-> [st.v EXCEPT ![fd.f] = SliceOf(r.v)], err |-> r.err]

\* json.Unmarshal(data, v) with v a fresh struct of the given type: the
\* struct as the decoder leaves it, and the error.  A text that is not one
\* JSON value is a syntax error, found before anything is stored; null is
\* accepted and stores nothing; any other value that is no object is a
\* type error and stores nothing.
Unmarshal(type, data) ==
    IF ~Valid(data.text)
    THEN [v |-> Zero(type), err |-> Error("SyntaxError")]
    ELSE IF Kind(data.text) = "null"
    THEN [v |-> Zero(type), err |-> ErrNil]
    ELSE IF Kind(data.text) # "object"
    THEN [v |-> Zero(type), err |-> Error("UnmarshalTypeError")]
    ELSE decodeObject(type, [v |-> Zero(type), err |-> ErrNil], data.text.ms)

\* json.Unmarshal(data, &m) with m a map[string]*json.RawMessage: the keys of
\* the object (the values, of any type, are kept raw).  null sets the map
\* to nil and is no error; another value that is no object is a type error.
UnmarshalKeys(data) ==
    IF ~Valid(data.text)
    THEN [v |-> {}, err |-> Error("SyntaxError")]
    ELSE IF Kind(data.text) = "null"
    THEN [v |-> {}, err |-> ErrNil]
    ELSE IF Kind(data.text) # "object"
    THEN [v |-> {}, err |-> Error("UnmarshalTypeError")]
    ELSE [v |-> {data.text.ms[i].k : i \in DOMAIN data.text.ms}, err |-> ErrNil]

---------------------------------------------------------------------------
(* URLs *)

\* A URL text is the sequence of the pieces the code concatenates.  TLC does
\* not look into a string, so the pieces that open a path segment (they
\* begin with "/") and those that open a query (they begin with "?") are
\* named here.
Slashed ==
    {"/", "/base", "/_settings", "/_mapping/", "/_status", "/_bulk", "/_suggest",
     "/_search", "/_search/template/", "/_search/template", "/*/_alias/",
     "/_msearch",
     "/_aliases"}
Queried == {"?pretty", "?explain"}

\* A url.URL value.  Scheme is a string; Opaque, User, Host, Path and
\* RawQuery are texts (RawQuery keeps the "?" of its first piece).
URL(scheme, opaque, user, host, path, query) ==
    [Scheme |-> scheme, Opaque |-> opaque, User |-> user, Host |-> host,
     Path |-> path, RawQuery |-> query]

\* Ports and path pieces url.Parse accepts: a port is made of digits, a path
\* piece holds no malformed percent escape.
ValidPort(p) == p \in {"", "80", "9200"}
ValidPiece(p) == p \notin {"%", "%zz"}

\* The place of the first piece of `text` that is one of `pieces`, or one
\* past its end.
Position(text, pieces) ==
    LET at == {i \in DOMAIN text : text[i] \in pieces}
    IN  IF at = {} THEN Len(text) + 1 ELSE CHOOSE i \in at : \A j \in at : i <= j

\* The URL of a host text, which may begin with a user: a port that is no
\* number and a path with a malformed escape are errors.
ParseHost(scheme, user, host, path, query) ==
    IF (Len(host) >= 3 /\ host[2] = ":" /\ ~ValidPort(host[3]))
         \/ \E i \in DOMAIN path : ~ValidPiece(path[i])
    THEN [u |-> URL("", <<>>, <<>>, <<>>, <<>>, <<>>), err |-> Error("url")]
    ELSE [u |-> URL(scheme, <<>>, user, host, path, query), err |-> ErrNil]

\* The URL of an authority: the user stands before "@", the host after it.
ParseAuthority(scheme, authority, path, query) ==
    IF Position(authority, {"@"}) > Len(authority)
    THEN ParseHost(scheme, <<>>, authority, path, query)
    ELSE ParseHost(scheme,
                   SubSeq(authority, 1, Position(authority, {"@"}) - 1),
                   SubSeq(authority, Position(authority, {"@"}) + 1, Len(authority)),
                   path, query)

\* The URL of a text without its query: after the scheme, a text that does
\* not go on with "//" is opaque; else the authority runs up to the first
\* "/" and the rest is the path; a text without a scheme is a path.
ParseRest(rest, query) ==
    IF Len(rest) >= 2 /\ rest[2] = ":"
    THEN [u |-> URL(rest[1], SubSeq(rest, 3, Len(rest)), <<>>, <<>>, <<>>, query),
          err |-> ErrNil]
    ELSE IF Len(rest) >= 2 /\ rest[2] = "://"
    THEN ParseAuthority(rest[1], SubSeq(rest, 3, Position(rest, Slashed) - 1),
                        SubSeq(rest, Position(rest, Slashed), Len(rest)), query)
    ELSE ParseHost("", <<>>, <<>>, rest, query)

\* url.Parse(rawurl): the query is cut off at the first "?" and kept as it
\* is; what stands before it is parsed.
Parse(rawurl) ==
    ParseRest(SubSeq(rawurl, 1, Position(rawurl, Queried) - 1),
              SubSeq(rawurl, Position(rawurl, Queried), Len(rawurl)))

\* url.URL.String(): the scheme, then the opaque text, or "//", the user,
\* the host and the path; then the query.
String(u) ==
    IF u.Opaque # <<>> THEN <<u.Scheme, ":">> \o u.Opaque \o u.RawQuery
    ELSE (IF u.Scheme # "" THEN <<u.Scheme, "://">> ELSE <<>>)
         \o (IF u.User # <<>> THEN u.User \o <<"@">> ELSE <<>>)
         \o u.Host \o u.Path \o u.RawQuery

\* NewClient(scheme, host, port): a client whose Host is
\* url.URL{Scheme: scheme, Host: host + ":" + port}.  Nothing is validated.
NewClient(scheme, host, port) ==
    [Host |-> URL(scheme, <<>>, <<>>, <<host, ":", port>>, <<>>, <<>>)]

\* NewClientFromUrl(rawurl): the client whose Host is the parsed URL; when
\* url.Parse fails, log.Fatal ends the process and there is no client.
NewClientFromUrl(rawurl) ==
    IF Parse(rawurl).err # ErrNil THEN {} ELSE {[Host |-> Parse(rawurl).u]}

\* http.NewRequest parses the URL text.
ParsesURL(url) == Parse(url).err = ErrNil

\* The HTTP client sends a request only to a URL with the scheme http or
\* https and a host; for any other, client.Do and httpClient.Head return an
\* error at once.
Sendable(u) == u.Scheme \in {"http", "https"} /\ u.Host # <<>>

---------------------------------------------------------------------------
(* The wire: what happens to one request once it is built *)

\* refused: client.Do returns an error (no connection is made, or the URL
\* is one it cannot send to); broken: the response arrives and
\* reading its body fails; response: a status and a body text arrive.
WireRefused        == [kind |-> "refused", status |-> 0, text |-> NoText]
WireBroken(st)     == [kind |-> "broken", status |-> st, text |-> NoText]
WireResponse(st, t) == [kind |-> "response", status |-> st, text |-> t]

\* Answers the caller of client.Do never sees, because the HTTP client sends
\* the request again on its own: a redirect it follows (a 3xx status with a
\* Location; the client is created without a redirect policy), and a
\* connection taken from the pool of http.DefaultTransport that the server
\* had closed, on which the transport replays a GET or HEAD request.
WireRedirect == [kind |-> "redirect", status |-> 302, text |-> NoText]
WireStale    == [kind |-> "stale", status |-> 0, text |-> NoText]

---------------------------------------------------------------------------
(* client.go: the transport helper *)

\* A faulty variant: 404 counted among the failures.
engineFailure_upto404(status) ==
    status > StatusCreated /\ status <= StatusNotFound

\* The statuses sendHTTPRequest surfaces as an error.
engineFailure(status) ==
    status > StatusCreated /\ status < StatusNotFound

\* The error sendHTTPRequest builds from the body of a failed request.
engineError(response) == errorsNew(response)

\* A faulty variant: the body returned along with the error.
failureReturn_body(response) ==
    [response |-> Bytes(response), err |-> engineError(response)]

\* What sendHTTPRequest returns on an engine failure.
failureReturn(response) ==
    [response |-> NilBytes, err |-> engineError(response)]

\* What a call returns when the HTTP client reports an error: the error,
\* after the one attempt.
refusedReturn ==
    [response |-> NilBytes, err |-> Error("refused"),
     requests |-> 1, opened |-> 0, closed |-> 0]

\* sendHTTPRequest(method, url, body) when the wire does `wire`: the returned
\* bytes and error, the number of requests handed to the HTTP client, and
\* the response bodies opened and closed.
sendHTTPRequest(method, url, body, wire) ==
    IF ~ParsesURL(url) THEN
        [response |-> NilBytes, err |-> Error("url"),
         requests |-> 0, opened |-> 0, closed |-> 0]
    ELSE IF wire.kind = "refused" THEN refusedReturn
    ELSE IF wire.kind = "broken" THEN
        [response |-> NilBytes, err |-> Error("broken"),
         requests |-> 1, opened |-> 1, closed |-> 1]
    ELSE IF engineFailure(wire.status) THEN
        [response |-> failureReturn(wire.text).response,
         err |-> failureReturn(wire.text).err,
         requests |-> 1, opened |-> 1, closed |-> 1]
    ELSE
        [response |-> Bytes(wire.text), err |-> ErrNil,
         requests |-> 1, opened |-> 1, closed |-> 1]

---------------------------------------------------------------------------
(* client.go: the API methods *)

\* A request as a method builds it.
Request(method, url, body) == [method |-> method, url |-> url, body |-> body]

\* A completed call: the request, what the transport returned (ret is empty
\* for IndexExists, which does not use the helper) and the method's results.
Result(req, ret, value, err) ==
    [req |-> req, ret |-> ret, value |-> value, err |-> err]

send(req, wire) == sendHTTPRequest(req.method, req.url, req.body, wire)

\* A faulty variant: the partly decoded struct returned with the error.
unmarshalResult_partial(type, r) ==
    IF r.err # ErrNil THEN [value |-> Zero(type), err |-> r.err]
    ELSE LET d == Unmarshal(type, r.response)
         IN  [value |-> d.v, err |-> d.err]

\* The block every typed method repeats on the helper's return r:
\*   if err != nil { return &T{}, err }
\*   esResp := &T{}; err = json.Unmarshal(response, esResp)
\*   if err != nil { return &T{}, err }
\*   return esResp, nil
unmarshalResult(type, r) ==
    IF r.err # ErrNil THEN [value |-> Zero(type), err |-> r.err]
    ELSE LET d == Unmarshal(type, r.response)
         IN  IF d.err # ErrNil THEN [value |-> Zero(type), err |-> d.err]
             ELSE [value |-> d.v, err |-> ErrNil]

typed(type, req, wire) ==
    LET r == send(req, wire)
        u == unmarshalResult(type, r)
    IN  Result(req, r, u.value, u.err)

\* The methods that hand the helper's return to the caller as it is.
raw(req, wire) ==
    LET r == send(req, wire)
    IN  Result(req, r, r.response, r.err)

CreateIndexRequest(c, indexName, settings) ==
    Request("PUT", String(c.Host) \o <<"/", indexName>>, settings)
CreateIndex(c, indexName, settings, wire) ==
    typed("Response", CreateIndexRequest(c, indexName, settings), wire)

DeleteIndexRequest(c, indexName) ==
    Request("DELETE", String(c.Host) \o <<"/", indexName>>, NoText)
DeleteIndex(c, indexName, wire) ==
    typed("Response", DeleteIndexRequest(c, indexName), wire)

UpdateIndexSettingRequest(c, indexName, settings) ==
    Request("PUT", String(c.Host) \o <<"/", indexName, "/_settings">>, settings)
UpdateIndexSetting(c, indexName, settings, wire) ==
    typed("Response", UpdateIndexSettingRequest(c, indexName, settings), wire)

\* Decoding into a map[string]Settings: every member is an entry, decoded
\* into a fresh Settings; a member that is no object is an error.
RECURSIVE decodeSettingsMap(_, _)
decodeSettingsMap(st, ms) ==
    IF ms = <<>> THEN st
    ELSE LET m == Head(ms)
             r == IF m.t = "obj"
                  THEN decodeObject("Settings", [v |-> Settings, err |-> st.err], m.o)
                  ELSE IF m.t = "null" THEN [v |-> Settings, err |-> st.err]
                  ELSE [v |-> Settings,
                        err |-> saveError(st.err, Error("UnmarshalTypeError"))]
         IN  decodeSettingsMap([v |-> (m.k :> r.v) @@ st.v, err |-> r.err], Tail(ms))

\* json.NewDecoder(...).Decode(&info) with info a nil map[string]Settings:
\* the decoder reads the first JSON value of the text and leaves what
\* follows it unread; a text with no value at all is io.EOF.
Decode(data) ==
    LET kind == Kind(data.text) IN
    IF kind = "empty" THEN [v |-> <<>>, err |-> Error("EOF")]
    ELSE IF kind = "invalid" THEN [v |-> <<>>, err |-> Error("SyntaxError")]
    ELSE IF kind = "null" THEN [v |-> <<>>, err |-> ErrNil]
    ELSE IF kind # "object" THEN [v |-> <<>>, err |-> Error("UnmarshalTypeError")]
    ELSE decodeSettingsMap([v |-> <<>>, err |-> ErrNil], data.text.ms)

IndexSettingsRequest(c, indexName) ==
    Request("GET", String(c.Host) \o <<"/", indexName, "/_settings">>, NoText)
IndexSettings(c, indexName, wire) ==
    LET req == IndexSettingsRequest(c, indexName)
        r == send(req, wire)
        info == Decode(r.response)
    IN  IF r.err # ErrNil THEN Result(req, r, Settings, r.err)
        ELSE IF info.err # ErrNil THEN Result(req, r, Settings, info.err)
        ELSE IF indexName \in DOMAIN info.v
        THEN Result(req, r, info.v[indexName], ErrNil)
        ELSE Result(req, r, Settings, ErrNil)

\* IndexExists sends a HEAD request with http.Client.Head and looks at the
\* status only; the response body is neither read nor closed.
IndexExistsRequest(c, indexName) ==
    Request("HEAD", String(c.Host) \o <<"/", indexName>>, NoText)

\* A faulty variant: 201 taken for the status of an existing index.
statusIsOK_created(status) == status = StatusCreated

\* A faulty variant: every 2xx status taken for that of an existing index.
statusIsOK_any2xx(status) == status \in 200..299

statusIsOK(status) == status = StatusOK

\* What IndexExists did on the wire, in the shape of the helper's return.
headReturn(err, requests, opened) ==
    [response |-> NilBytes, err |-> err,
     requests |-> requests, opened |-> opened, closed |-> 0]

IndexExists(c, indexName, wire) ==
    LET req == IndexExistsRequest(c, indexName)
    IN  IF ~ParsesURL(req.url)
        THEN Result(req, headReturn(Error("url"), 0, 0), FALSE, Error("url"))
        ELSE IF wire.kind = "refused"
        THEN Result(req, headReturn(Error("refused"), 1, 0), FALSE, Error("refused"))
        ELSE Result(req, headReturn(ErrNil, 1, 1), statusIsOK(wire.status), ErrNil)

GetMappingRequest(c, indexName, datatype) ==
    Request("GET", String(c.Host) \o <<"/", indexName, "/_mapping/", datatype>>,
            NoText)
GetMapping(c, indexName, datatype, wire) ==
    raw(GetMappingRequest(c, indexName, datatype), wire)

PutMappingRequest(c, indexName, datatype, mapping) ==
    Request("PUT", String(c.Host) \o <<"/", indexName, "/_mapping/", datatype>>,
            mapping)
PutMapping(c, indexName, datatype, mapping, wire) ==
    typed("Response", PutMappingRequest(c, indexName, datatype, mapping), wire)

StatusRequest(c, indexNames) ==
    Request("GET", String(c.Host) \o <<"/", indexNames, "/_status">>, NoText)
Status(c, indexNames, wire) ==
    typed("Settings", StatusRequest(c, indexNames), wire)

InsertDocumentRequest(c, indexName, documentType, identifier, data) ==
    Request("POST",
            String(c.Host) \o <<"/", indexName, "/", documentType, "/", identifier>>,
            data)
InsertDocumentCall(c, indexName, documentType, identifier, data, wire) ==
    typed("InsertDocument",
          InsertDocumentRequest(c, indexName, documentType, identifier, data), wire)

DocumentRequest(c, indexName, documentType, identifier) ==
    Request("GET",
            String(c.Host) \o <<"/", indexName, "/", documentType, "/", identifier>>,
            NoText)
DocumentCall(c, indexName, documentType, identifier, wire) ==
    typed("Document", DocumentRequest(c, indexName, documentType, identifier), wire)

DeleteDocumentRequest(c, indexName, documentType, identifier) ==
    Request("DELETE",
            String(c.Host) \o <<"/", indexName, "/", documentType, "/", identifier>>,
            NoText)
DeleteDocument(c, indexName, documentType, identifier, wire) ==
    typed("Document",
          DeleteDocumentRequest(c, indexName, documentType, identifier), wire)

BulkRequest(c, data) ==
    Request("POST", String(c.Host) \o <<"/_bulk">>, data)
BulkCall(c, data, wire) ==
    typed("Bulk", BulkRequest(c, data), wire)

\* A faulty variant: the index left out of the URL.
SearchRequest_noIndex(c, indexName, documentType, data, explain) ==
    Request("POST", String(c.Host) \o <<"/_search">>, data)

SearchRequest(c, indexName, documentType, data, explain) ==
    Request("POST",
            String(c.Host) \o <<"/", indexName, "/">>
              \o (IF Len(documentType) > 0 THEN <<documentType, "/">> ELSE <<>>)
              \o <<"_search">>
              \o (IF explain THEN <<"?explain">> ELSE <<>>),
            data)
Search(c, indexName, documentType, data, explain, wire) ==
    typed("SearchResult",
          SearchRequest(c, indexName, documentType, data, explain), wire)

CreateSearchTemplateRequest(c, name, template) ==
    Request("POST", String(c.Host) \o <<"/_search/template/", name>>, template)
CreateSearchTemplate(c, name, template, wire) ==
    typed("Response", CreateSearchTemplateRequest(c, name, template), wire)

SearchTemplateRequest(c, indexName, data, explain) ==
    Request("POST",
            String(c.Host) \o <<"/", indexName, "/_search/template">>
              \o (IF explain THEN <<"?explain">> ELSE <<>>),
            data)
SearchTemplate(c, indexName, data, explain, wire) ==
    typed("SearchResult", SearchTemplateRequest(c, indexName, data, explain), wire)

SuggestRequest(c, indexName, data) ==
    Request("POST", String(c.Host) \o <<"/", indexName, "/_suggest">>, data)
Suggest(c, indexName, data, wire) ==
    raw(SuggestRequest(c, indexName, data), wire)

\* Texts the code edits character by character are sequences of
\* one-character strings.

\* strings.NewReplacer("\n", " ").Replace(text)
Replace(text) ==
    [i \in DOMAIN text |-> IF text[i] = "\n" THEN " " ELSE text[i]]

\* strings.Join(list, sep)
RECURSIVE Join(_, _)
Join(list, sep) ==
    IF list = <<>> THEN <<>>
    ELSE IF Len(list) = 1 THEN list[1]
    ELSE list[1] \o sep \o Join(Tail(list), sep)

\* The line pair MSearch builds for one query.
queryLines(query) == query.Header \o <<"\n">> \o Replace(query.Body)

\* The request body MSearch builds: the pairs joined by a newline, and a
\* trailing newline.
mSearchQuery(queries) ==
    Join([i \in DOMAIN queries |-> queryLines(queries[i])], <<"\n">>) \o <<"\n">>

MSearchRequest(c, queries) ==
    Request("POST", String(c.Host) \o <<"/_msearch">>, mSearchQuery(queries))
MSearch(c, queries, wire) ==
    typed("MSearchResult", MSearchRequest(c, queries), wire)

\* getAliasQuery(remove, add, alias): the text of the alias actions, as the
\* sequence of the pieces the code concatenates.
removeAction(index, alias) ==
    <<"{ \"remove\": { \"index\": \"", index, "\", \"alias\": \"", alias, "\" }}">>
\* A faulty variant: the index and the alias exchanged.
addAction_swapped(index, alias) ==
    <<"{ \"add\": { \"index\": \"", alias, "\", \"alias\": \"", index, "\" }}">>

addAction(index, alias) ==
    <<"{ \"add\": { \"index\": \"", index, "\", \"alias\": \"", alias, "\" }}">>

\* A faulty variant: the remove actions left out.
getAliasQuery_addOnly(remove, add, alias) ==
    LET actions == [i \in 1..Len(add) |-> addAction(add[i], alias)]
    IN  <<"{\"actions\": [ ">> \o Join(actions, <<",">>) \o <<" ]}">>

getAliasQuery(remove, add, alias) ==
    LET actions == [i \in 1..(Len(remove) + Len(add)) |->
                      IF i <= Len(remove)
                      THEN removeAction(remove[i], alias)
                      ELSE addAction(add[i - Len(remove)], alias)]
    IN  <<"{\"actions\": [ ">> \o Join(actions, <<",">>) \o <<" ]}">>

UpdateAliasRequest(c, remove, add, alias) ==
    Request("POST", String(c.Host) \o <<"/_aliases">>,
            getAliasQuery(remove, add, alias))
UpdateAlias(c, remove, add, alias, wire) ==
    typed("Response", UpdateAliasRequest(c, remove, add, alias), wire)

\* GetIndicesFromAlias returns the keys of the answer, one slice entry per
\* key, in the order Go iterates the map (unspecified): the value is the
\* set of the entries.  On an error it returns the empty slice.
StringSlice(elems) == [isnil |-> FALSE, elems |-> elems]

GetIndicesFromAliasRequest(c, alias) ==
    Request("GET", String(c.Host) \o <<"/*/_alias/", alias>>, NoText)
GetIndicesFromAlias(c, alias, wire) ==
    LET req == GetIndicesFromAliasRequest(c, alias)
        r == send(req, wire)
    IN  IF r.err # ErrNil THEN Result(req, r, StringSlice({}), r.err)
        ELSE LET esResp == UnmarshalKeys(r.response)
             IN  IF esResp.err # ErrNil
                 THEN Result(req, r, StringSlice({}), esResp.err)
                 ELSE Result(req, r, StringSlice(esResp.v), ErrNil)

---------------------------------------------------------------------------
(* The search engine, as the client's tests expect it to answer *)

IndexOrder == <<"a", "b">>
DocOrder   == <<"1", "2">>
IndexNames == {IndexOrder[i] : i \in DOMAIN IndexOrder}
DocIds     == {DocOrder[i] : i \in DOMAIN DocOrder}
AliasNames == {"al"}
ErrorStyles == {"string", "object"}

\* The engine's state as one value.
EngineState(ix, ds, sr, al, mp, tp) ==
    [indices |-> ix, docs |-> ds, searchable |-> sr, aliases |-> al,
     mappings |-> mp, templates |-> tp]
NoDocs == [id \in DocIds |-> 0]

\* An answer: what the wire carries back and the engine's state afterwards.
Reply(wire, engine) == [wire |-> wire, engine |-> engine]

\* An error body: older engines send the reason as a string, newer ones as
\* an object.
ErrorBody(style, reason, status) ==
    IF style = "string"
    THEN Json(<<Str("error", reason), Num("status", status)>>)
    ELSE Json(<<Obj("error", <<Str("type", reason)>>), Num("status", status)>>)

Acknowledged == Json(<<Bool("acknowledged", TRUE)>>)

Min(x, y) == IF x <= y THEN x ELSE y

\* PUT, DELETE, HEAD /index
EngineIndex(method, name, eng, style) ==
    IF method = "PUT" THEN
        IF name \in eng.indices
        THEN Reply(WireResponse(400, ErrorBody(style, "index_already_exists", 400)), eng)
        ELSE Reply(WireResponse(200, Acknowledged),
                   [eng EXCEPT !.indices = @ \cup {name}])
    ELSE IF method = "DELETE" THEN
        IF name \in eng.indices
        THEN Reply(WireResponse(200, Acknowledged),
                   [eng EXCEPT !.indices = @ \ {name},
                               !.docs[name] = NoDocs,
                               !.searchable[name] = {},
                               !.mappings[name] = {},
                               !.aliases = [al \in DOMAIN @ |-> @[al] \ {name}]])
        ELSE Reply(WireResponse(404, ErrorBody(style, "index_not_found", 404)), eng)
    ELSE IF method = "HEAD" THEN
        Reply(WireResponse(IF name \in eng.indices THEN 200 ELSE 404, NoText), eng)
    ELSE Reply(WireResponse(405, ErrorBody(style, "method_not_allowed", 405)), eng)

\* The members that name a document.
DocMembers(name, type, id) ==
    <<Str("_index", name), Str("_type", type), Str("_id", id)>>

\* POST, GET, DELETE /index/type/id
EngineDocument(method, name, type, id, eng, style) ==
    LET version == eng.docs[name][id] IN
    IF method = "POST" THEN
        Reply(WireResponse(IF version = 0 THEN 201 ELSE 200,
                           Json(DocMembers(name, type, id) \o
                                <<Num("_version", version + 1),
                                  Bool("created", version = 0)>>)),
              [eng EXCEPT !.indices = @ \cup {name},
                          !.docs[name][id] = version + 1])
    ELSE IF name \notin eng.indices THEN
        Reply(WireResponse(404, ErrorBody(style, "index_not_found", 404)), eng)
    ELSE IF version = 0 THEN
        Reply(WireResponse(404, Json(DocMembers(name, type, id) \o
                                     <<Bool("found", FALSE)>>)), eng)
    ELSE IF method = "GET" THEN
        Reply(WireResponse(200, Json(DocMembers(name, type, id) \o
                                     <<Num("_version", version),
                                       Bool("found", TRUE),
                                       Obj("_source", <<Str("_id", id)>>)>>)), eng)
    ELSE IF method = "DELETE" THEN
        Reply(WireResponse(200, Json(DocMembers(name, type, id) \o
                                     <<Num("_version", version + 1),
                                       Bool("found", TRUE)>>)),
              [eng EXCEPT !.docs[name][id] = 0])
    ELSE Reply(WireResponse(405, ErrorBody(style, "method_not_allowed", 405)), eng)

\* The complete (newline-terminated) lines of a text; what follows the last
\* newline is dropped.
RECURSIVE LinesFrom(_, _, _)
LinesFrom(text, i, line) ==
    IF i > Len(text) THEN <<>>
    ELSE IF text[i] = "\n" THEN <<line>> \o LinesFrom(text, i + 1, <<>>)
    ELSE LinesFrom(text, i + 1, Append(line, text[i]))
Lines(text) == LinesFrom(text, 1, <<>>)

\* The index a header line names and the size a body line asks for: the
\* first index character and the first digit of the line.
HeaderIndex(line) ==
    LET at == {i \in DOMAIN line : line[i] \in IndexNames}
    IN  IF at = {} THEN "" ELSE line[CHOOSE i \in at : \A j \in at : i <= j]
Digit(ch) == CASE ch = "1" -> 1 [] ch = "2" -> 2 [] ch = "3" -> 3
BodySize(line) ==
    LET at == {i \in DOMAIN line : line[i] \in {"1", "2", "3"}}
    IN  IF at = {} THEN 10
        ELSE Digit(line[CHOOSE i \in at : \A j \in at : i <= j])

\* The colours of the documents, by identifier.
DocColors(id) ==
    CASE id = "1" -> {"blue", "red"}
      [] id = "2" -> {"yellow", "red"}

\* The documents of an index a search finds: those the engine has made
\* searchable (it does so at its next refresh, not when they are written)
\* and that have the colour asked for; every one when no colour is asked.
Matching(name, color, eng) ==
    SelectSeq(DocOrder, LAMBDA id : /\ id \in eng.searchable[name]
                                    /\ color = "" \/ color \in DocColors(id))

\* The answer to one search: the first `size` matching documents of the
\* index, and their total.
SearchResponse(name, color, size, eng, style) ==
    IF name \notin eng.indices
    THEN ErrorBody(style, "index_not_found", 404).ms
    ELSE LET found == Matching(name, color, eng)
             shown == SubSeq(found, 1, Min(size, Len(found)))
         IN  <<Num("took", 1), Bool("timed_out", FALSE),
               Obj("hits", <<Num("total", Len(found)),
                             Arr("hits", [i \in DOMAIN shown |->
                                            <<Str("_index", name),
                                              Str("_id", shown[i])>>])>>)>>

\* The matching documents of the indices `names`, each with its index.
RECURSIVE MatchingIn(_, _, _)
MatchingIn(names, color, eng) ==
    IF names = <<>> THEN <<>>
    ELSE [i \in DOMAIN Matching(Head(names), color, eng) |->
            <<Str("_index", Head(names)),
              Str("_id", Matching(Head(names), color, eng)[i])>>]
         \o MatchingIn(Tail(names), color, eng)

\* A line that is no JSON text: it holds a brace without its partner.
Broken(line) ==
    Cardinality({i \in DOMAIN line : line[i] = "{"})
      # Cardinality({i \in DOMAIN line : line[i] = "}"})

\* The answer to the search of one header line and one body line.  A header
\* that names no index (an empty line, a body text) asks for every index; a
\* body that is no search (no JSON text, a header text) gives an error.
MSearchResponse(header, body, eng, style) ==
    IF Broken(body) \/ HeaderIndex(body) # ""
    THEN ErrorBody(style, "search_parse", 400).ms
    ELSE IF HeaderIndex(header) # ""
    THEN SearchResponse(HeaderIndex(header), "", BodySize(body), eng, style)
    ELSE LET found == MatchingIn(IndexOrder, "", eng)
         IN  <<Num("took", 1), Bool("timed_out", FALSE),
               Obj("hits", <<Num("total", Len(found)),
                             Arr("hits", SubSeq(found, 1,
                                                Min(BodySize(body), Len(found))))>>)>>

\* POST /_msearch: a newline at the very start of the body is skipped; the
\* lines that follow are taken in pairs, header then body, an empty line
\* where a header is due being a header; a header line that is no JSON text
\* fails the whole request.
EngineMSearch(body, eng, style) ==
    LET all == Lines(body)
        lines == IF all # <<>> /\ Head(all) = <<>> THEN Tail(all) ELSE all
        n == Len(lines) \div 2
    IN  IF \E i \in DOMAIN lines : i % 2 = 1 /\ Broken(lines[i])
        THEN Reply(WireResponse(400, ErrorBody(style, "parse_exception", 400)), eng)
        ELSE IF n = 0
        THEN Reply(WireResponse(400, ErrorBody(style, "no requests added", 400)), eng)
        ELSE Reply(WireResponse(200,
                     Json(<<Arr("responses",
                                [i \in 1..n |->
                                   MSearchResponse(lines[2 * i - 1], lines[2 * i],
                                                   eng, style)])>>)), eng)

\* A search query on a colour, and the line of a bulk request that asks to
\* index the document `id`, as the tests build them.
SearchByColorQuery(color) ==
    <<"{\"query\": {\"match\": {\"Colors\": \"", color, "\"}}}">>
BulkIndexConstant(indexName, documentType, id) ==
    <<"{\"index\": { \"_index\": \"", indexName, "\", \"_type\": \"",
      documentType, "\", \"_id\": \"", id, "\" } }">>

\* POST /index/_search, /index/type/_search: the documents with the colour
\* of the query, ten of them at most.
EngineSearch(name, data, eng, style) ==
    IF name \notin eng.indices
    THEN Reply(WireResponse(404, ErrorBody(style, "index_not_found", 404)), eng)
    ELSE Reply(WireResponse(200,
                 Json(SearchResponse(name, IF Len(data) = 3 THEN data[2] ELSE "",
                                     10, eng, style))), eng)

\* POST /_bulk: the body is a list of lines, an action line followed by the
\* line of the document; each document is written, its index created when
\* missing, and the answer holds one item per action.
RECURSIVE BulkItems(_, _)
BulkItems(lines, eng) ==
    IF Len(lines) < 2 THEN [items |-> <<>>, engine |-> eng]
    ELSE LET action == lines[1]
             name == action[2]
             id == action[6]
             version == eng.docs[name][id] + 1
             rest == BulkItems(SubSeq(lines, 3, Len(lines)),
                               [eng EXCEPT !.indices = @ \cup {name},
                                           !.docs[name][id] = version])
         IN  [items |-> << <<Obj("index", <<Str("_index", name),
                                            Str("_type", action[4]),
                                            Str("_id", id),
                                            Num("_version", version),
                                            Num("status", IF version = 1
                                                          THEN 201 ELSE 200)>>)>> >>
                           \o rest.items,
              engine |-> rest.engine]

EngineBulk(body, eng, style) ==
    LET done == BulkItems(body, eng) IN
    IF done.items = <<>>
    THEN Reply(WireResponse(400, ErrorBody(style, "no requests added", 400)), eng)
    ELSE Reply(WireResponse(200, Json(<<Num("took", 1), Bool("errors", FALSE),
                                        Arr("items", done.items)>>)),
               done.engine)

\* The alias actions of a request body: the text between the opening and
\* the closing piece holds five pieces per action, a comma piece between.
RECURSIVE ParseActions(_, _)
ParseActions(body, i) ==
    IF i + 4 > Len(body) - 1 THEN <<>>
    ELSE <<[op |-> IF body[i] = removeAction("", "")[1] THEN "remove" ELSE "add",
            index |-> body[i + 1], alias |-> body[i + 3]]>>
         \o ParseActions(body, i + 6)

RECURSIVE ApplyActions(_, _)
ApplyActions(al, actions) ==
    IF actions = <<>> THEN al
    ELSE LET x == Head(actions)
             old == IF x.alias \in DOMAIN al THEN al[x.alias] ELSE {}
             new == IF x.op = "remove" THEN old \ {x.index} ELSE old \cup {x.index}
         IN  ApplyActions((x.alias :> new) @@ al, Tail(actions))

\* POST /_aliases: all actions of a request are applied together, in order,
\* or none when one of them names a missing index.  This is the engine's
\* part of "The change is atomic." in the doc comment of UpdateAlias; the
\* client's part is to send the actions of a call in one request.
EngineAliases(body, eng, style) ==
    LET actions == ParseActions(body, 2)
        bad == {i \in DOMAIN actions : actions[i].index \notin eng.indices}
    IN  IF actions = <<>>
        THEN Reply(WireResponse(400, ErrorBody(style, "no action specified", 400)), eng)
        ELSE IF bad # {}
        THEN Reply(WireResponse(404, ErrorBody(style, "index_not_found", 404)), eng)
        ELSE Reply(WireResponse(200, Acknowledged),
                   [eng EXCEPT !.aliases = ApplyActions(@, actions)])

\* GET /*/_alias/alias: one member per index the alias points to.
EngineGetAlias(alias, eng, style) ==
    LET at == SelectSeq(IndexOrder,
                        LAMBDA name : alias \in DOMAIN eng.aliases
                                      /\ name \in eng.aliases[alias])
    IN  IF at = <<>>
        THEN Reply(WireResponse(404, ErrorBody(style, "alias missing", 404)), eng)
        ELSE Reply(WireResponse(200,
                     Json([i \in DOMAIN at |->
                             Obj(at[i], <<Obj("aliases", <<Obj(alias, <<>>)>>)>>)])),
                   eng)

\* The answer for an index the engine does not have.
IndexMissing(eng, style) ==
    Reply(WireResponse(404, ErrorBody(style, "index_not_found", 404)), eng)

\* The mapping of the products, as the engine gives it back.
ProductMapping ==
    <<Obj("properties", <<Obj("colors", <<Str("type", "string")>>)>>)>>

\* GET, PUT /index/_mapping/type: a type has the mapping that was put for
\* it; the answer for a type that has none is the empty object.  (Mappings
\* the engine derives from the documents it indexes are left out.)
EngineMapping(method, name, type, eng, style) ==
    IF name \notin eng.indices THEN IndexMissing(eng, style)
    ELSE IF method = "PUT" THEN
        Reply(WireResponse(200, Acknowledged),
              [eng EXCEPT !.mappings[name] = @ \cup {type}])
    ELSE IF method = "GET" THEN
        IF type \in eng.mappings[name]
        THEN Reply(WireResponse(200,
                     Json(<<Obj(name, <<Obj("mappings",
                                            <<Obj(type, ProductMapping)>>)>>)>>)),
                   eng)
        ELSE Reply(WireResponse(200, Json(<<>>)), eng)
    ELSE Reply(WireResponse(405, ErrorBody(style, "method_not_allowed", 405)), eng)

\* GET, PUT /index/_settings: the settings of the index, under its name; an
\* update is acknowledged.
EngineSettings(method, name, eng, style) ==
    IF name \notin eng.indices THEN IndexMissing(eng, style)
    ELSE IF method = "PUT" THEN Reply(WireResponse(200, Acknowledged), eng)
    ELSE IF method = "GET" THEN
        Reply(WireResponse(200,
                Json(<<Obj(name, <<Obj("settings",
                                       <<Obj("index", <<Str("number_of_shards",
                                                            "5")>>)>>)>>)>>)),
              eng)
    ELSE Reply(WireResponse(405, ErrorBody(style, "method_not_allowed", 405)), eng)

\* The shards an answer reports on.
ShardsMember ==
    Obj("_shards", <<Num("total", 1), Num("successful", 1), Num("failed", 0)>>)

\* GET /index/_status
EngineStatus(name, eng, style) ==
    IF name \notin eng.indices THEN IndexMissing(eng, style)
    ELSE Reply(WireResponse(200,
                 Json(<<ShardsMember, Obj("indices", <<Obj(name, <<>>)>>)>>)), eng)

\* POST /index/_suggest: no shard fails.
EngineSuggest(name, eng, style) ==
    IF name \notin eng.indices THEN IndexMissing(eng, style)
    ELSE Reply(WireResponse(200, Json(<<ShardsMember>>)), eng)

\* The search template of the tests, which matches on a colour, and the
\* text that asks for a search with the stored template `id`.
TemplateNames == {"colorSearch"}
SearchTemplateColorSearch ==
    <<"{ \"template\": { \"query\": { \"match\": { \"Colors\": \"{{color}}\" } } } }">>
SearchByColorSearchTemplate(id, color) ==
    <<"{ \"id\": \"", id, "\", \"params\": { \"color\": \"", color, "\" } }">>

\* POST /_search/template/name: the template is stored under the name.
EngineTemplate(method, name, eng, style) ==
    IF method = "POST"
    THEN Reply(WireResponse(200, Acknowledged),
               [eng EXCEPT !.templates = @ \cup {name}])
    ELSE Reply(WireResponse(405, ErrorBody(style, "method_not_allowed", 405)), eng)

\* POST /index/_search/template: the search of the stored template the text
\* names, with the colour it gives.
EngineSearchTemplate(name, data, eng, style) ==
    IF Len(data) # 5 \/ data[2] \notin eng.templates
    THEN Reply(WireResponse(404, ErrorBody(style, "resource_not_found", 404)), eng)
    ELSE EngineSearch(name, SearchByColorQuery(data[4]), eng, style)

\* The engine's answer to a request, by the path of its URL.
EngineReply(req, eng, style) ==
    LET u == Parse(req.url).u
        path == u.Path \o u.RawQuery IN
    IF path = <<"/_msearch">> THEN EngineMSearch(req.body, eng, style)
    ELSE IF path = <<"/_aliases">> THEN EngineAliases(req.body, eng, style)
    ELSE IF path = <<"/_bulk">>
    THEN EngineBulk(req.body, eng, style)
    ELSE IF Len(path) >= 4 /\ path[2] \in IndexNames
              /\ "_search" \in {path[Len(path)], path[Len(path) - 1]}
    THEN EngineSearch(path[2], req.body, eng, style)
    ELSE IF Len(path) = 2 /\ path[1] = "/*/_alias/"
    THEN EngineGetAlias(path[2], eng, style)
    ELSE IF Len(path) = 2 /\ path[1] = "/" /\ path[2] \in IndexNames
    THEN EngineIndex(req.method, path[2], eng, style)
    ELSE IF Len(path) = 6 /\ path[2] \in IndexNames /\ path[6] \in DocIds
    THEN EngineDocument(req.method, path[2], path[4], path[6], eng, style)
    ELSE IF Len(path) = 4 /\ path[2] \in IndexNames /\ path[3] = "/_mapping/"
    THEN EngineMapping(req.method, path[2], path[4], eng, style)
    ELSE IF Len(path) = 3 /\ path[2] \in IndexNames /\ path[3] = "/_settings"
    THEN EngineSettings(req.method, path[2], eng, style)
    ELSE IF Len(path) = 3 /\ path[2] \in IndexNames /\ path[3] = "/_status"
    THEN EngineStatus(path[2], eng, style)
    ELSE IF Len(path) = 3 /\ path[2] \in IndexNames /\ path[3] = "/_suggest"
    THEN EngineSuggest(path[2], eng, style)
    ELSE IF Len(path) = 2 /\ path[1] = "/_search/template/"
    THEN EngineTemplate(req.method, path[2], eng, style)
    ELSE IF Len(path) \in 3..4 /\ path[2] \in IndexNames
              /\ path[3] = "/_search/template"
    THEN EngineSearchTemplate(path[2], req.body, eng, style)
    ELSE Reply(WireResponse(400, ErrorBody(style, "no handler found", 400)), eng)

---------------------------------------------------------------------------
(* The state machine *)

\* The client the calls are made on.
c == [Host |-> Host]

Engine == EngineState(indices, docs, searchable, aliases, mappings, templates)

\* No call yet, and no exchange on the wire.
WireNone == [kind |-> "none", status |-> 0, text |-> NoText]
NoReturn ==
    [response |-> NilBytes, err |-> ErrNil, requests |-> 0, opened |-> 0,
     closed |-> 0]
Idle ==
    [op |-> "none", args |-> <<>>, before |-> EngineState({}, <<>>, <<>>, <<>>, <<>>, {}),
     wire |-> WireNone, req |-> Request("", <<>>, NoText), ret |-> NoReturn,
     value |-> FALSE, err |-> ErrNil, sent |-> 0, again |-> 0]

\* Response bodies an arbitrary server may send.
ClientTexts ==
    { NoText,
      Acknowledged,
      ErrorBody("string", "failure", 500),
      ErrorBody("object", "failure", 500),
      Json(<<Str("_id", "1"), Bool("found", TRUE), Str("_version", "x")>>),
      Json(<<Num("took", 1),
             Obj("hits", <<Arr("hits", << <<Str("_id", "1")>> >>),
                           Str("total", "x")>>)>>),
      Json(<<Arr("responses", << <<Num("took", 1)>>, <<Str("took", "x")>> >>),
             Arr("items", << <<Obj("index", <<Num("status", 201)>>)>>,
                             <<Str("index", "x")>> >>)>>),
      Json(<<Obj("_shards", <<Num("total", 1)>>), Str("indices", "x"),
             Obj("a", <<Obj("indices", <<>>)>>)>>),
      Plain("null"),
      Plain("[]"),
      Plain("<html>"),
      Trailed(<<Obj("a", <<Obj("indices", <<>>)>>)>>, "x") }

ClientStatuses == {200, 403, 404, 500}

ClientWires ==
    {WireRefused, WireBroken(200)} \cup
    {WireResponse(st, t) : st \in ClientStatuses, t \in ClientTexts}

\* The environments a call may run in: "wire", a server that may answer
\* anything or fail; "repeat", such a server with few answers, where an
\* earlier call is remembered; "status", a server that answers with any
\* status code; "engine", the search engine above over a reliable
\* connection; "session", the same with the previous call remembered;
\* "bulk", a session with the calls made on one index; "shared", the engine
\* used by several goroutines at once; "alias", the same where the
\* goroutines update and read one alias.
Open(env) == env \in {"wire", "repeat"}
Concurrent(env) == env \in {"shared", "alias"}

\* The error bodies an engine sends: either style in a session, those of
\* the newer engines where goroutines share the engine.
Styles(env) == IF Concurrent(env) THEN {"object"} ELSE ErrorStyles

\* The goroutines that call the client: one in a session, whose calls are
\* remembered in `last` and `prev`, several where the client is shared.
Goroutines == {"g1", "g2"}
Callers(env) == IF Concurrent(env) THEN Goroutines ELSE {"g1"}
History(env) == ~Concurrent(env)

\* What the transport helper is tried on: every status code.
Methods == {"GET", "POST"}
TransportURLs ==
    {String(NewClient("http", "es", "9200").Host) \o <<"/", name>> :
       name \in {"a", "%"}}
TransportTexts == {NoText, Acknowledged, ErrorBody("object", "failure", 500)}
TransportWires ==
    {WireRefused, WireBroken(200)} \cup
    {WireResponse(st, t) : st \in MinStatus..MaxStatus, t \in TransportTexts}

\* The answers of the server of "repeat": a failure, a success, an error.
RepeatWires ==
    {WireRefused, WireResponse(200, Acknowledged),
     WireResponse(403, ErrorBody("object", "failure", 500))}

\* What the HTTP client may meet before the answer it hands to the call: a
\* redirect, or a stale connection when the request is one the transport
\* replays; MaxResent times at most in the model.
Resends(call) ==
    IF call.again >= MaxResent THEN {}
    ELSE {WireRedirect}
           \cup (IF call.req.method \in {"GET", "HEAD"} THEN {WireStale} ELSE {})

\* What may come back to the request of a call.
Replies(env, call) ==
    IF env = "wire" THEN {Reply(w, Engine) : w \in ClientWires \cup Resends(call)}
    ELSE IF env = "repeat" THEN {Reply(w, Engine) : w \in RepeatWires}
    ELSE IF env = "status" THEN {Reply(w, Engine) : w \in TransportWires}
    ELSE {EngineReply(call.req, Engine, style) : style \in Styles(env)}

\* Index names a caller passes: "%" is a name whose URL does not parse.
Names(env) ==
    IF env \in {"wire", "status"} THEN {"a", "%"}
    ELSE IF env \in {"repeat", "bulk", "shared"} THEN {IndexOrder[1]}
    ELSE IndexNames

\* How often a document is written against the engine: up to MaxVersion
\* times, and once where only its presence counts.
Writes(env) == IF env \in {"engine", "shared"} THEN 1 ELSE MaxVersion
Ids(env) == IF Open(env) \/ env = "shared" THEN {"1"} ELSE DocIds
NameLists(env) ==
    IF Open(env) THEN {<<>>, <<"a">>}
    ELSE IF env = "shared" THEN {<<>>, <<IndexOrder[1]>>}
    ELSE IF env = "alias" THEN {<<>>} \cup {<<n>> : n \in IndexNames}
    ELSE {<<>>, IndexOrder} \cup {<<n>> : n \in IndexNames}

\* The lists a caller passes to UpdateAlias as the indices to add: in
\* "alias", lists that leave the alias at least one index.
AddLists(env) ==
    IF env = "alias" THEN NameLists(env) \ {<<>>} ELSE NameLists(env)

SomeText == Json(<<>>)

\* The request a method builds from the client's base URL and its arguments.
RequestOf(op, args) ==
    CASE op = "CreateIndex" -> CreateIndexRequest(c, args[1], SomeText)
      [] op = "DeleteIndex" -> DeleteIndexRequest(c, args[1])
      [] op = "UpdateIndexSetting" -> UpdateIndexSettingRequest(c, args[1], SomeText)
      [] op = "IndexSettings" -> IndexSettingsRequest(c, args[1])
      [] op = "IndexExists" -> IndexExistsRequest(c, args[1])
      [] op = "GetMapping" -> GetMappingRequest(c, args[1], args[2])
      [] op = "PutMapping" -> PutMappingRequest(c, args[1], args[2], SomeText)
      [] op = "Status" -> StatusRequest(c, args[1])
      [] op = "InsertDocument" ->
           InsertDocumentRequest(c, args[1], args[2], args[3], SomeText)
      [] op = "Document" -> DocumentRequest(c, args[1], args[2], args[3])
      [] op = "DeleteDocument" ->
           DeleteDocumentRequest(c, args[1], args[2], args[3])
      [] op = "Bulk" -> BulkRequest(c, args[1])
      [] op = "Search" -> SearchRequest(c, args[1], args[2], args[3], args[4])
      [] op = "MSearch" -> MSearchRequest(c, args[1])
      [] op = "CreateSearchTemplate" ->
           CreateSearchTemplateRequest(c, args[1], args[2])
      [] op = "SearchTemplate" ->
           SearchTemplateRequest(c, args[1], args[2], args[3])
      [] op = "Suggest" -> SuggestRequest(c, args[1], SomeText)
      [] op = "GetIndicesFromAlias" -> GetIndicesFromAliasRequest(c, args[1])
      [] op = "UpdateAlias" -> UpdateAliasRequest(c, args[1], args[2], args[3])
      [] op = "sendHTTPRequest" -> Request(args[1], args[2], NoText)

\* What the method `op` returns when the wire does `wire`.
Invoke(op, args, wire) ==
    CASE op = "CreateIndex" -> CreateIndex(c, args[1], SomeText, wire)
      [] op = "DeleteIndex" -> DeleteIndex(c, args[1], wire)
      [] op = "UpdateIndexSetting" -> UpdateIndexSetting(c, args[1], SomeText, wire)
      [] op = "IndexSettings" -> IndexSettings(c, args[1], wire)
      [] op = "IndexExists" -> IndexExists(c, args[1], wire)
      [] op = "GetMapping" -> GetMapping(c, args[1], args[2], wire)
      [] op = "PutMapping" -> PutMapping(c, args[1], args[2], SomeText, wire)
      [] op = "Status" -> Status(c, args[1], wire)
      [] op = "InsertDocument" ->
           InsertDocumentCall(c, args[1], args[2], args[3], SomeText, wire)
      [] op = "Document" -> DocumentCall(c, args[1], args[2], args[3], wire)
      [] op = "DeleteDocument" -> DeleteDocument(c, args[1], args[2], args[3], wire)
      [] op = "Bulk" -> BulkCall(c, args[1], wire)
      [] op = "Search" -> Search(c, args[1], args[2], args[3], args[4], wire)
      [] op = "MSearch" -> MSearch(c, args[1], wire)
      [] op = "CreateSearchTemplate" ->
           CreateSearchTemplate(c, args[1], args[2], wire)
      [] op = "SearchTemplate" ->
           SearchTemplate(c, args[1], args[2], args[3], wire)
      [] op = "Suggest" -> Suggest(c, args[1], SomeText, wire)
      [] op = "GetIndicesFromAlias" -> GetIndicesFromAlias(c, args[1], wire)
      [] op = "UpdateAlias" -> UpdateAlias(c, args[1], args[2], args[3], wire)
      [] op = "sendHTTPRequest" -> raw(Request(args[1], args[2], NoText), wire)

\* A call, at every point where its code waits.  It builds its request and
\* hands it to the HTTP client (Start: pc "sent"; a URL that does not parse
\* ends the call before the HTTP client is used: pc "unsent"; a URL the
\* HTTP client cannot send to makes client.Do fail at once: pc "served").
\* The server answers the requests in flight in any order (Serve: pc
\* "served", or "sent" still when the HTTP client sends the request again).
\* The call reads the answer to its own request and returns what it decodes
\* from it (Return).  All of this is kept in variables local to the call;
\* other calls, and the engine's refresh, may take steps in between.
\* `sent` counts the requests that went out for the call, `again` those of
\* them the HTTP client sent on its own.
NoCall ==
    [pc |-> "idle", op |-> "none", args |-> <<>>,
     req |-> Request("", <<>>, NoText), before |-> Idle.before, seen |-> Idle,
     wire |-> WireNone, value |-> FALSE, err |-> ErrNil, sent |-> 0, again |-> 0]

\* The requests in flight that write a document.
Writing ==
    {g \in Goroutines : calls[g].pc = "sent"
                          /\ calls[g].op \in {"InsertDocument", "Bulk"}}

\* A faulty variant: the answer is read from the other goroutine's call.
Received_other(g) == calls[CHOOSE h \in Goroutines : h # g].wire

\* The answer a call reads: the one to its own request.
Received(g) == calls[g].wire

\* Where a call stands once its request is built: "unsent" when the URL does
\* not parse, "served" when the HTTP client cannot send to it, else "sent".
Handed(url) ==
    LET parsed == Parse(url)
    IN  IF parsed.err # ErrNil THEN "unsent"
        ELSE IF Sendable(parsed.u) THEN "sent"
        ELSE "served"

\* The call of `op` with `args` once its request is built and handed on.
Begun(op, args) ==
    LET req == RequestOf(op, args)
        pc == Handed(req.url)
    IN  [NoCall EXCEPT
           !.pc = pc, !.op = op, !.args = args, !.req = req,
           !.wire = IF pc = "served" THEN WireRefused ELSE WireNone,
           !.sent = IF pc = "sent" THEN 1 ELSE 0]

\* Goroutine g calls the method `op` with arguments `args`: the request is
\* built and, when its URL parses and can be sent to, sent.  In "repeat" the
\* call remembered in `prev` is any call that has returned before.
Start(env, g, op, args) ==
    /\ calls[g].pc \in {"idle", "done"}
    /\ calls' = [calls EXCEPT ![g] =
                   [Begun(op, args) EXCEPT
                      !.before = IF History(env) THEN Engine ELSE @]]
    /\ last' = IF History(env) THEN Idle ELSE last
    /\ prev' \in IF env \in {"session", "bulk"} THEN {last}
                 ELSE IF env = "repeat" THEN {prev, last}
                 ELSE {prev}
    /\ UNCHANGED <<Host, indices, docs, searchable, aliases, mappings, templates>>

\* What the engine holds, when it serves a call, of what the call names:
\* whether the indices exist, the version of the document, the documents a
\* search finds, whether the mapping and the template are stored, the
\* indices the alias points to.
Elems(list) == {list[i] : i \in DOMAIN list}
Facts(op, args, eng) ==
    LET name == IF op \in {"Bulk", "MSearch", "CreateSearchTemplate",
                           "GetIndicesFromAlias", "UpdateAlias"}
                THEN IndexOrder[1] ELSE args[1]
        named == IF op = "UpdateAlias" THEN Elems(args[1]) \cup Elems(args[2])
                 ELSE {name}
        id == IF op \in {"InsertDocument", "Document", "DeleteDocument"}
              THEN args[3] ELSE DocOrder[1]
        color == IF op = "Search" THEN args[3][2]
                 ELSE IF op = "SearchTemplate" THEN args[2][4]
                 ELSE ""
    IN  [exists |-> /\ op \notin {"InsertDocument", "Bulk", "CreateSearchTemplate",
                                  "GetIndicesFromAlias"}
                    /\ named \subseteq eng.indices,
         version |-> IF op \in {"InsertDocument", "Document", "DeleteDocument",
                                "Bulk"}
                     THEN eng.docs[name][id] ELSE 0,
         found |-> IF op \in {"Search", "MSearch", "SearchTemplate"}
                   THEN Len(Matching(name, color, eng)) ELSE 0,
         mapped |-> op = "GetMapping" /\ args[2] \in eng.mappings[name],
         stored |-> op = "SearchTemplate" /\ args[2][2] \in eng.templates,
         points |-> IF op = "GetIndicesFromAlias" THEN eng.aliases[args[1]]
                    ELSE {}]

\* A faulty variant: the request is sent again after a failed attempt.
clientDo_retry(call, wire) ==
    IF wire.kind \in {"redirect", "stale"}
    THEN [call EXCEPT !.sent = @ + 1, !.again = @ + 1]
    ELSE IF wire.kind = "refused" /\ call.sent = call.again + 1
    THEN [call EXCEPT !.sent = @ + 1]
    ELSE [call EXCEPT !.pc = "served", !.wire = wire]

\* client.Do and httpClient.Head on what comes back: after a redirect, and
\* on a stale connection, the HTTP client sends the request once more and
\* the call goes on waiting; on anything else (an error, a response) they
\* return, and the method goes on to its own return: it calls them once.
clientDo(call, wire) ==
    IF wire.kind \in {"redirect", "stale"}
    THEN [call EXCEPT !.sent = @ + 1, !.again = @ + 1]
    ELSE [call EXCEPT !.pc = "served", !.wire = wire]

\* The engine acknowledges the alias update of `call`.
Applied(env, call, wire) ==
    /\ env = "alias"
    /\ call.op = "UpdateAlias"
    /\ wire.status = StatusOK

\* The server answers the request of g: `wire` is what the connection of
\* the call then holds, `before` the engine as the request found it (where
\* the engine is shared, what it held of what the call names).  In "alias",
\* `last` is the alias update the engine applied last, with the engine as
\* that update found it, and `seen` is that update as a call that lists the
\* alias finds it.
Serve(env) ==
    \E g \in Callers(env) :
      /\ calls[g].pc = "sent"
      /\ \E reply \in Replies(env, calls[g]) :
           /\ calls' = [calls EXCEPT ![g] =
                          clientDo([@ EXCEPT
                                      !.before =
                                        IF History(env) THEN Engine
                                        ELSE IF env = "shared"
                                        THEN Facts(calls[g].op, calls[g].args,
                                                   Engine)
                                        ELSE @,
                                      !.seen =
                                        IF env = "alias"
                                             /\ calls[g].op = "GetIndicesFromAlias"
                                        THEN last ELSE @],
                                   reply.wire)]
           /\ last' = IF Applied(env, calls[g], reply.wire)
                      THEN [Idle EXCEPT !.op = calls[g].op,
                                        !.args = calls[g].args,
                                        !.req = calls[g].req,
                                        !.before = Engine,
                                        !.wire = reply.wire]
                      ELSE last
           /\ indices' = reply.engine.indices
           /\ docs' = reply.engine.docs
           /\ searchable' = reply.engine.searchable
           /\ aliases' = reply.engine.aliases
           /\ mappings' = reply.engine.mappings
           /\ templates' = reply.engine.templates
      /\ UNCHANGED <<Host, prev>>

\* A faulty variant: a failed call leaves another base URL in the client.
Complete_rebased(env, g, res) ==
    /\ calls' = [calls EXCEPT ![g] =
                   IF History(env) THEN NoCall
                   ELSE [@ EXCEPT !.pc = "done", !.value = res.value,
                                  !.err = res.err]]
    /\ last' = IF History(env)
               THEN [op |-> calls[g].op, args |-> calls[g].args,
                     before |-> calls[g].before, wire |-> calls[g].wire,
                     req |-> res.req, ret |-> res.ret,
                     value |-> res.value, err |-> res.err,
                     sent |-> calls[g].sent, again |-> calls[g].again]
               ELSE last
    /\ Host' = IF res.err # ErrNil THEN NewClient("http", "es", "x").Host ELSE Host
    /\ UNCHANGED <<indices, docs, searchable, aliases, mappings, templates, prev>>

\* The call of g returns res to its caller; what the call held is gone.
Complete(env, g, res) ==
    /\ calls' = [calls EXCEPT ![g] =
                   IF History(env) THEN NoCall
                   ELSE [@ EXCEPT !.pc = "done", !.value = res.value,
                                  !.err = res.err]]
    /\ last' = IF History(env)
               THEN [op |-> calls[g].op, args |-> calls[g].args,
                     before |-> calls[g].before, wire |-> calls[g].wire,
                     req |-> res.req, ret |-> res.ret,
                     value |-> res.value, err |-> res.err,
                     sent |-> calls[g].sent, again |-> calls[g].again]
               ELSE last
    /\ UNCHANGED <<Host, indices, docs, searchable, aliases, mappings, templates,
                   prev>>

Return(env) ==
    \E g \in Callers(env) :
      /\ calls[g].pc \in {"served", "unsent"}
      /\ Complete(env, g, Invoke(calls[g].op, calls[g].args, Received(g)))

CallCreateIndex(env) ==
    \E g \in Callers(env), indexName \in Names(env) :
      Start(env, g, "CreateIndex", <<indexName>>)

CallDeleteIndex(env) ==
    \E g \in Callers(env), indexName \in Names(env) :
      Start(env, g, "DeleteIndex", <<indexName>>)

CallUpdateIndexSetting(env) ==
    \E g \in Callers(env), indexName \in Names(env) :
      Start(env, g, "UpdateIndexSetting", <<indexName>>)

CallIndexSettings(env) ==
    \E g \in Callers(env), indexName \in Names(env) :
      Start(env, g, "IndexSettings", <<indexName>>)

CallIndexExists(env) ==
    \E g \in Callers(env), indexName \in Names(env) :
      Start(env, g, "IndexExists", <<indexName>>)

CallGetMapping(env) ==
    \E g \in Callers(env), indexName \in Names(env) :
      Start(env, g, "GetMapping", <<indexName, "t">>)

CallPutMapping(env) ==
    \E g \in Callers(env), indexName \in Names(env) :
      Start(env, g, "PutMapping", <<indexName, "t">>)

CallStatus(env) ==
    \E g \in Callers(env), indexName \in Names(env) :
      Start(env, g, "Status", <<indexName>>)

CallInsertDocument(env) ==
    \E g \in Callers(env), indexName \in Names(env), identifier \in Ids(env) :
      /\ ~Open(env) =>
           docs[indexName][identifier] + Cardinality(Writing) < Writes(env)
      /\ Start(env, g, "InsertDocument", <<indexName, "t", identifier>>)

CallDocument(env) ==
    \E g \in Callers(env), indexName \in Names(env), identifier \in Ids(env) :
      Start(env, g, "Document", <<indexName, "t", identifier>>)

CallDeleteDocument(env) ==
    \E g \in Callers(env), indexName \in Names(env), identifier \in Ids(env) :
      Start(env, g, "DeleteDocument", <<indexName, "t", identifier>>)

\* The data a caller passes to Bulk: against the engine, the lines that
\* index up to MaxBulk documents of one index, none of them written more
\* than MaxVersion times.
RECURSIVE BulkLines(_, _)
BulkLines(indexName, ids) ==
    IF ids = <<>> THEN <<>>
    ELSE <<BulkIndexConstant(indexName, "t", Head(ids)), <<Head(ids)>> >>
         \o BulkLines(indexName, Tail(ids))
BulkData(env) ==
    IF Open(env) THEN {SomeText}
    ELSE UNION {{BulkLines(name, ids) :
                   ids \in {q \in UNION {[1..n -> Ids(env)] : n \in 1..MaxBulk} :
                              \A id \in Ids(env) :
                                docs[name][id] + Cardinality(Writing)
                                  + Cardinality({i \in DOMAIN q : q[i] = id})
                                  <= Writes(env)}} :
                name \in Names(env)}

CallBulk(env) ==
    \E g \in Callers(env), data \in BulkData(env) :
      Start(env, g, "Bulk", <<data>>)

\* The queries a caller passes to Search: against the engine, a query on a
\* colour.
SearchData(env) ==
    IF Open(env) THEN {SomeText}
    ELSE IF env = "shared" THEN {SearchByColorQuery("red")}
    ELSE {SearchByColorQuery(color) : color \in {"red", "blue"}}
Types(env) == IF env = "shared" THEN {""} ELSE {"", "t"}
Explained(env) == IF env \in {"repeat", "shared"} THEN {FALSE} ELSE BOOLEAN

CallSearch(env) ==
    \E g \in Callers(env), indexName \in Names(env), documentType \in Types(env),
       explain \in Explained(env), data \in SearchData(env) :
      Start(env, g, "Search", <<indexName, documentType, data, explain>>)

\* The engine refreshes its indices: what was written becomes searchable,
\* what was deleted no longer is.  No call of the client is involved.
Refresh ==
    /\ searchable' = [name \in IndexNames |->
                        {id \in DocIds : docs[name][id] > 0}]
    /\ searchable' # searchable
    /\ UNCHANGED <<Host, indices, docs, aliases, mappings, templates, calls,
                 last, prev>>

\* What a caller passes for search templates: against the engine, what the
\* tests pass (the template on a colour, a search for red, no explanation).
Templates(env) == IF Open(env) THEN Names(env) ELSE TemplateNames
TemplateTexts(env) ==
    IF Open(env) THEN {SomeText} ELSE {SearchTemplateColorSearch}
TemplateData(env) ==
    IF Open(env) THEN {SomeText}
    ELSE {SearchByColorSearchTemplate(id, "red") : id \in TemplateNames}
Explains(env) == IF env = "wire" THEN BOOLEAN ELSE {FALSE}

CallCreateSearchTemplate(env) ==
    \E g \in Callers(env), name \in Templates(env), template \in TemplateTexts(env) :
      Start(env, g, "CreateSearchTemplate", <<name, template>>)

CallSearchTemplate(env) ==
    \E g \in Callers(env), indexName \in Names(env), data \in TemplateData(env),
       explain \in Explains(env) :
      Start(env, g, "SearchTemplate", <<indexName, data, explain>>)

CallSuggest(env) ==
    \E g \in Callers(env), indexName \in Names(env) :
      Start(env, g, "Suggest", <<indexName>>)

CallGetIndicesFromAlias(env) ==
    \E g \in Callers(env), alias \in AliasNames :
      Start(env, g, "GetIndicesFromAlias", <<alias>>)

CallUpdateAlias(env) ==
    \E g \in Callers(env), remove \in NameLists(env), add \in AddLists(env),
       alias \in AliasNames :
      Start(env, g, "UpdateAlias", <<remove, add, alias>>)

\* The queries a caller passes to MSearch: up to MaxQueries of them; a
\* header names an index, a body a size, either may hold a newline, the
\* header before its text or within it.
Headers == {<<"a">>, <<"b">>, <<"\n", "a">>, <<"{", "\n", "a", "}">>}
Bodies  == {<<"1">>, <<"\n", "2">>}
QueryValues == [Header : Headers, Body : Bodies]
Queries(env) ==
    IF Open(env)
    THEN {<<>>, <<[Header |-> <<"a">>, Body |-> <<"\n", "2">>]>>}
    ELSE IF env = "shared"
    THEN {<<[Header |-> <<IndexOrder[1]>>, Body |-> <<"1">>]>>}
    ELSE UNION {[1..n -> QueryValues] : n \in 1..MaxQueries}

CallMSearch(env) ==
    \E g \in Callers(env), queries \in Queries(env) :
      Start(env, g, "MSearch", <<queries>>)

\* The transport helper alone, called with a method and a URL.
CallSendHTTPRequest(env) ==
    \E g \in Callers(env), method \in Methods, url \in TransportURLs :
      Start(env, g, "sendHTTPRequest", <<method, url>>)

---------------------------------------------------------------------------
(* Specifications *)

\* The client of the tests, and one built with a port that is no number.
GoodHost == NewClient("http", "es", "9200").Host
BadHost  == NewClient("http", "es", "x").Host

\* The texts NewClientFromUrl is called with: the URL of the tests; with a
\* user, without a port, with a path, with a query; a host and port without
\* a scheme; a port that is no number.
RawUrls ==
    { <<"http", "://", "es", ":", "9200">>,
      <<"http", "://", "u", "@", "es", ":", "9200">>,
      <<"http", "://", "es">>,
      <<"http", "://", "es", ":", "9200", "/base">>,
      <<"http", "://", "es", ":", "9200", "?pretty">>,
      <<"es", ":", "9200">>,
      <<"http", "://", "es", ":", "x">> }

\* The clients a program can construct.
Clients ==
    {NewClient("http", "es", port) : port \in {"9200", "x"}}
      \cup UNION {NewClientFromUrl(rawurl) : rawurl \in RawUrls}

InitEngineState ==
    /\ indices = {}
    /\ searchable = [name \in IndexNames |-> {}]
    /\ docs = [name \in IndexNames |-> NoDocs]
    /\ aliases = [al \in AliasNames |-> {}]
    /\ mappings = [name \in IndexNames |-> {}]
    /\ templates = {}

\* Every method of the client, against a server that may answer anything.
Init ==
    /\ Host \in {cl.Host : cl \in Clients}
    /\ InitEngineState
    /\ calls = [g \in Goroutines |-> NoCall]
    /\ last = Idle
    /\ prev = Idle

Next ==
    \/ CallCreateIndex("wire")
    \/ CallDeleteIndex("wire")
    \/ CallUpdateIndexSetting("wire")
    \/ CallIndexSettings("wire")
    \/ CallIndexExists("wire")
    \/ CallGetMapping("wire")
    \/ CallPutMapping("wire")
    \/ CallStatus("wire")
    \/ CallInsertDocument("wire")
    \/ CallDocument("wire")
    \/ CallDeleteDocument("wire")
    \/ CallBulk("wire")
    \/ CallSearch("wire")
    \/ CallMSearch("wire")
    \/ CallCreateSearchTemplate("wire")
    \/ CallSearchTemplate("wire")
    \/ CallSuggest("wire")
    \/ CallGetIndicesFromAlias("wire")
    \/ CallUpdateAlias("wire")
    \/ Serve("wire")
    \/ Return("wire")

Spec == Init /\ [][Next]_vars

\* Sessions against the search engine.
InitEngine ==
    /\ Host = GoodHost
    /\ InitEngineState
    /\ calls = [g \in Goroutines |-> NoCall]
    /\ last = Idle
    /\ prev = Idle

\* Index management.
NextIndex ==
    \/ CallCreateIndex("session")
    \/ CallDeleteIndex("session")
    \/ CallIndexExists("session")
    \/ CallGetMapping("session")
    \/ CallPutMapping("session")
    \/ CallUpdateIndexSetting("session")
    \/ CallIndexSettings("session")
    \/ CallStatus("session")
    \/ Serve("session")
    \/ Return("session")

SpecIndex == InitEngine /\ [][NextIndex]_vars

\* Documents.
NextDocs ==
    \/ CallInsertDocument("session")
    \/ CallDocument("session")
    \/ CallDeleteDocument("session")
    \/ CallDeleteIndex("session")
    \/ CallSuggest("session")
    \/ Serve("session")
    \/ Return("session")

SpecDocs == InitEngine /\ [][NextDocs]_vars

\* Aliases.
NextAlias ==
    \/ CallCreateIndex("session")
    \/ CallDeleteIndex("session")
    \/ CallUpdateAlias("session")
    \/ CallGetIndicesFromAlias("session")
    \/ Serve("session")
    \/ Return("session")

SpecAlias == InitEngine /\ [][NextAlias]_vars

\* Multi-search against the search engine, over documents written before.
NextSearch ==
    \/ CallInsertDocument("engine")
    \/ Refresh
    \/ CallDeleteIndex("engine")
    \/ CallMSearch("engine")
    \/ Serve("engine")
    \/ Return("engine")

SpecSearch == InitEngine /\ [][NextSearch]_vars

\* Bulk indexing and search.
NextBulk ==
    \/ CallBulk("bulk")
    \/ Refresh
    \/ CallSearch("bulk")
    \/ CallDeleteIndex("bulk")
    \/ CallCreateSearchTemplate("bulk")
    \/ CallSearchTemplate("bulk")
    \/ Serve("bulk")
    \/ Return("bulk")

SpecBulk == InitEngine /\ [][NextBulk]_vars

\* Concurrent calls on one client.
NextConcurrent ==
    \/ CallCreateIndex("shared")
    \/ CallDeleteIndex("shared")
    \/ CallUpdateIndexSetting("shared")
    \/ CallIndexSettings("shared")
    \/ CallIndexExists("shared")
    \/ CallGetMapping("shared")
    \/ CallPutMapping("shared")
    \/ CallStatus("shared")
    \/ CallInsertDocument("shared")
    \/ CallDocument("shared")
    \/ CallDeleteDocument("shared")
    \/ CallBulk("shared")
    \/ CallSearch("shared")
    \/ CallMSearch("shared")
    \/ CallCreateSearchTemplate("shared")
    \/ CallSearchTemplate("shared")
    \/ CallSuggest("shared")
    \/ CallGetIndicesFromAlias("shared")
    \/ CallUpdateAlias("shared")
    \/ Serve("shared")
    \/ Return("shared")
    \/ Refresh

SpecConcurrent == InitEngine /\ [][NextConcurrent]_vars

\* The transport helper on every status code.
NextTransport ==
    \/ CallSendHTTPRequest("status")
    \/ Serve("status")
    \/ Return("status")

SpecTransport == InitEngine /\ [][NextTransport]_vars

\* IndexExists alone, on every status code.
NextExists ==
    \/ CallIndexExists("status")
    \/ Serve("status")
    \/ Return("status")

SpecExists == InitEngine /\ [][NextExists]_vars

\* Every method of the client called again and again, against a server that
\* fails, succeeds or reports an error.
NextFrame ==
    \/ CallCreateIndex("repeat")
    \/ CallDeleteIndex("repeat")
    \/ CallUpdateIndexSetting("repeat")
    \/ CallIndexSettings("repeat")
    \/ CallIndexExists("repeat")
    \/ CallGetMapping("repeat")
    \/ CallPutMapping("repeat")
    \/ CallStatus("repeat")
    \/ CallInsertDocument("repeat")
    \/ CallDocument("repeat")
    \/ CallDeleteDocument("repeat")
    \/ CallBulk("repeat")
    \/ CallSearch("repeat")
    \/ CallMSearch("repeat")
    \/ CallCreateSearchTemplate("repeat")
    \/ CallSearchTemplate("repeat")
    \/ CallSuggest("repeat")
    \/ CallGetIndicesFromAlias("repeat")
    \/ CallUpdateAlias("repeat")
    \/ Serve("repeat")
    \/ Return("repeat")

SpecFrame == Init /\ [][NextFrame]_vars

\* One alias updated and listed by several goroutines at once; the indices
\* exist.
InitAliasShared ==
    /\ Host = GoodHost
    /\ indices = IndexNames
    /\ searchable = [name \in IndexNames |-> {}]
    /\ docs = [name \in IndexNames |-> NoDocs]
    /\ aliases = [al \in AliasNames |-> {}]
    /\ mappings = [name \in IndexNames |-> {}]
    /\ templates = {}
    /\ calls = [g \in Goroutines |-> NoCall]
    /\ last = Idle
    /\ prev = Idle

NextAliasShared ==
    \/ CallUpdateAlias("alias")
    \/ CallGetIndicesFromAlias("alias")
    \/ Serve("alias")
    \/ Return("alias")

SpecAliasShared == InitAliasShared /\ [][NextAliasShared]_vars

\* getAliasQuery alone, on every list of up to MaxList index names; an
\* alias may bear the name of an index.
NameSeqs == UNION {[1..n -> IndexNames] : n \in 0..MaxList}
QueryAliases == AliasNames \cup {"a"}

CallGetAliasQuery ==
    /\ last.op = "pendingQuery"
    /\ last' = [last EXCEPT !.op = "getAliasQuery",
                            !.value = getAliasQuery(last.args[1], last.args[2],
                                                    last.args[3])]
    /\ UNCHANGED <<Host, indices, docs, searchable, aliases, mappings, templates,
                 calls, prev>>

InitAliasQuery ==
    /\ Host = GoodHost
    /\ InitEngineState
    /\ calls = [g \in Goroutines |-> NoCall]
    /\ prev = Idle
    /\ \E remove \in NameSeqs, add \in NameSeqs, alias \in QueryAliases :
         last = [Idle EXCEPT !.op = "pendingQuery", !.args = <<remove, add, alias>>]

NextAliasQuery == CallGetAliasQuery

SpecAliasQuery == InitAliasQuery /\ [][NextAliasQuery]_vars

---------------------------------------------------------------------------
(* Claims *)

\* The helper has returned from a request that was answered with a status.
Answered ==
    /\ last.op = "sendHTTPRequest"
    /\ last.ret.requests = 1
    /\ last.wire.kind = "response"

\* C1: sendHTTPRequest returns an error exactly when the status of the
\* response is neither a 2xx status nor 404.
C1_ErrorIffNot2xxNor404 ==
    Answered =>
      ((last.err # ErrNil) <=>
         (~(last.wire.status \in 200..299) /\ last.wire.status # 404))

\* C2, as stated: for every status in 400..499 the helper hands back the raw
\* response body with a nil error.
C2_Every4xxReturnedAsIs ==
    (Answered /\ last.wire.status \in 400..499) =>
      (last.err = ErrNil /\ last.ret.response = Bytes(last.wire.text))

\* C2, amended: for every status in 404..499 the helper hands back the raw
\* response body with a nil error; for 400..403 it returns nil bytes and an
\* error whose message is the raw body.
C2_4xxFrom404ReturnedAsIs ==
    /\ (Answered /\ last.wire.status \in 404..499) =>
         (last.err = ErrNil /\ last.ret.response = Bytes(last.wire.text))
    /\ (Answered /\ last.wire.status \in 400..403) =>
         (last.err = errorsNew(last.wire.text) /\ last.ret.response = NilBytes)

C2_Witness ==
    /\ Answered
    /\ last.wire.status = 404
    /\ last.wire.text = ErrorBody("object", "failure", 500)
    /\ last.err = ErrNil
    /\ last.ret.response = Bytes(last.wire.text)

\* A method of the client has returned.
Called == last.op # "none"

\* C6, as stated: every invocation of an API method issues exactly one
\* outbound HTTP request, whatever its outcome.
C6_ExactlyOneRequest ==
    Called => last.sent = 1

\* C6, amended: every invocation issues exactly one outbound HTTP request of
\* its own and never retries, whether the call then succeeds, the connection
\* fails, the body cannot be read or the engine reports a failure; except
\* that it issues none when the request cannot be sent (its URL does not
\* parse, and the call returns that error; or its URL has no scheme the HTTP
\* client sends to), and that the HTTP client issues one more for every
\* redirect it follows and every replay on a stale connection.
C6_OneRequestOfItsOwn ==
    /\ \A g \in Goroutines :
         calls[g].pc = "sent" => calls[g].sent = calls[g].again + 1
    /\ Called =>
         IF ParsesURL(last.req.url) /\ Sendable(Parse(last.req.url).u)
         THEN last.sent = last.again + 1
         ELSE /\ last.sent = 0
              /\ last.err # ErrNil
              /\ ~ParsesURL(last.req.url) => last.err = Error("url")

\* A redirect was followed, and the request that went out then failed: it
\* was not sent again.
C6_Witness ==
    /\ Called
    /\ last.again = 1
    /\ last.sent = 2
    /\ last.wire.kind = "refused"
    /\ last.err = Error("refused")

\* The zero value of the result type of each method.
ZeroValue(op) ==
    CASE op \in {"CreateIndex", "DeleteIndex", "UpdateIndexSetting", "PutMapping",
                 "CreateSearchTemplate", "UpdateAlias"} ->
           [Acknowledged |-> FALSE, Error |-> "", Status |-> 0]
      [] op \in {"IndexSettings", "Status"} -> Settings
      [] op = "IndexExists" -> FALSE
      [] op \in {"GetMapping", "Suggest"} -> NilBytes
      [] op = "InsertDocument" -> InsertDocument
      [] op \in {"Document", "DeleteDocument"} -> Document
      [] op = "Bulk" -> Bulk
      [] op \in {"Search", "SearchTemplate"} -> SearchResult
      [] op = "MSearch" -> MSearchResult
      [] op = "GetIndicesFromAlias" -> StringSlice({})

\* C7: when the transport fails (the request cannot be built, the connection
\* fails, the body cannot be read) a method returns that same error and the
\* zero value of its result type; when the body cannot be decoded it returns
\* the zero value too, never what was decoded before the error.
C7_ErrorsReturnZero ==
    (Called /\ last.err # ErrNil) =>
      /\ last.value = ZeroValue(last.op)
      /\ last.ret.err # ErrNil => last.err = last.ret.err

\* A body whose decoding fails after a field was stored.
C7_Witness ==
    /\ last.op = "DeleteIndex"
    /\ last.wire = WireResponse(404, ErrorBody("object", "failure", 500))
    /\ Unmarshal("Response", last.ret.response).v.Status = 500
    /\ last.err = Error("UnmarshalTypeError")
    /\ last.value = [Acknowledged |-> FALSE, Error |-> "", Status |-> 0]

\* C8: when sendHTTPRequest reports an engine failure, the message of the
\* error is the whole raw response body and the returned bytes are nil; the
\* method that called it returns that error.
C8_FailureCarriesBody ==
    (Called /\ last.ret.err.kind = "errorString") =>
      /\ last.ret.err.text = last.wire.text
      /\ last.ret.response = NilBytes
      /\ last.err = last.ret.err

C8_Witness ==
    /\ last.op = "CreateIndex"
    /\ last.wire = WireResponse(403, ErrorBody("object", "failure", 500))
    /\ last.ret.err = errorsNew(ErrorBody("object", "failure", 500))
    /\ last.ret.response = NilBytes
    /\ last.err = last.ret.err

\* The call before the last one was `op` on the index the last call names,
\* and returned a nil error.
After(op) ==
    /\ prev.op = op
    /\ prev.err = ErrNil
    /\ prev.args = last.args

\* C3: against the engine, over a reliable connection: IndexExists(name)
\* right after a successful CreateIndex(name) on an index that did not exist
\* returns true with a nil error; right after an acknowledged
\* DeleteIndex(name) it returns false with a nil error; in every cycle of
\* create, check, delete, however many went before.
C3_IndexRoundTrip ==
    last.op = "IndexExists" =>
      /\ (After("CreateIndex") /\ last.args[1] \notin prev.before.indices) =>
           (last.value = TRUE /\ last.err = ErrNil)
      /\ (After("DeleteIndex") /\ prev.value.Acknowledged) =>
           (last.value = FALSE /\ last.err = ErrNil)

\* IndexExists after the delete of a second cycle: the index was there before
\* the delete, is gone now, and the other index is untouched.
C3_Witness ==
    /\ last.op = "IndexExists"
    /\ last.args = <<"a">>
    /\ After("DeleteIndex")
    /\ prev.value.Acknowledged
    /\ prev.before.indices = {"a", "b"}
    /\ indices = {"b"}
    /\ last.value = FALSE
    /\ last.err = ErrNil

\* C4: against the engine, over a reliable connection: InsertDocument
\* returns a result whose ID is the identifier supplied; InsertDocument
\* again on the same index, type and identifier returns a Version one
\* greater than the call before it did; a Document call that follows on the
\* same index, type and identifier returns Found = true and the same ID.
C4_InsertThenRead ==
    /\ (last.op = "InsertDocument" /\ last.err = ErrNil) =>
         last.value.ID = last.args[3]
    /\ (last.op = "InsertDocument" /\ last.err = ErrNil
          /\ After("InsertDocument")) =>
         last.value.Version = prev.value.Version + 1
    /\ (last.op = "Document" /\ After("InsertDocument")) =>
         /\ last.err = ErrNil
         /\ last.value.Found = TRUE
         /\ last.value.ID = prev.value.ID
         /\ last.value.ID = last.args[3]

\* A document written twice, then read.
C4_Witness ==
    /\ last.op = "Document"
    /\ After("InsertDocument")
    /\ last.args = <<"a", "t", "2">>
    /\ prev.value.ID = "2"
    /\ prev.value.Version = 2
    /\ prev.value.Created = FALSE
    /\ last.value.Found = TRUE
    /\ last.value.ID = "2"
    /\ last.value.Version = 2

\* The call of g is GetIndicesFromAlias(alias), has returned, and the engine
\* had applied an UpdateAlias on that alias when it answered the call.
ListedAfterUpdate(g) ==
    /\ calls[g].op = "GetIndicesFromAlias"
    /\ calls[g].pc = "done"
    /\ calls[g].seen.op = "UpdateAlias"
    /\ calls[g].seen.args[3] = calls[g].args[1]

\* The actions a call of UpdateAlias is to have the engine apply.
Asked(remove, add, alias) ==
    [i \in DOMAIN remove |-> [op |-> "remove", index |-> remove[i], alias |-> alias]]
      \o [i \in DOMAIN add |-> [op |-> "add", index |-> add[i], alias |-> alias]]

\* Every call of UpdateAlias sends one request, which holds all its actions.
UpdatesInOneRequest ==
    \A g \in Goroutines :
      (calls[g].op = "UpdateAlias" /\ calls[g].pc # "idle") =>
        /\ calls[g].sent = 1
        /\ ParseActions(calls[g].req.body, 2)
             = Asked(calls[g].args[1], calls[g].args[2], calls[g].args[3])

RECURSIVE Terminated(_)
Terminated(lines) ==
    IF lines = <<>> THEN <<>>
    ELSE Head(lines) \o <<"\n">> \o Terminated(Tail(lines))

\* C9: the request body MSearch sends for N >= 1 queries consists of exactly
\* 2N newline-terminated lines: line 2i-1 is the Header of query i, line 2i
\* its Body with every newline replaced by a space, in the order of the
\* input slice.
C9_TwoLinesPerQuery ==
    last.op = "MSearch" =>
      LET queries == last.args[1]
          lines == Lines(last.req.body)
      IN  /\ last.req.body = Terminated(lines)
          /\ Len(lines) = 2 * Len(queries)
          /\ \A i \in DOMAIN queries :
               /\ lines[2 * i - 1] = queries[i].Header
               /\ lines[2 * i] = Replace(queries[i].Body)

\* The number of documents the index held when the call was made.
Held(name) ==
    IF name \in last.before.indices
    THEN Cardinality(last.before.searchable[name])
    ELSE 0

\* C10: MSearch with two sub-queries, each over an index that holds at least
\* as many documents as the sub-query's size, returns two responses, and
\* response i holds exactly as many hits as the size of sub-query i.
C10_HitsMatchSize ==
    LET queries == last.args[1] IN
    (/\ last.op = "MSearch"
     /\ Len(queries) = 2
     /\ \A i \in 1..2 : Held(HeaderIndex(queries[i].Header))
                          >= BodySize(queries[i].Body)) =>
      /\ last.err = ErrNil
      /\ Len(last.value.Responses.e) = 2
      /\ \A i \in 1..2 :
           Len(last.value.Responses.e[i].Hits.Hits.e) = BodySize(queries[i].Body)

\* C11: the text getAliasQuery builds holds exactly len(remove) + len(add)
\* actions between its opening and closing piece, separated by commas: one
\* remove action per entry of remove, then one add action per entry of add,
\* each in input order and each naming the alias; with both lists empty the
\* action list is empty.
C11_ActionListFromSets ==
    last.op = "getAliasQuery" =>
      LET remove == last.args[1]
          add == last.args[2]
          alias == last.args[3]
          body == last.value
          n == Len(remove) + Len(add)
          actions == ParseActions(body, 2)
      IN  /\ body[1] = "{\"actions\": [ "
          /\ body[Len(body)] = " ]}"
          /\ Len(body) = 2 + 5 * n + (IF n > 0 THEN n - 1 ELSE 0)
          /\ \A i \in 1..(n - 1) : body[1 + 6 * i] = ","
          /\ Len(actions) = n
          /\ \A i \in 1..Len(remove) :
               actions[i] = [op |-> "remove", index |-> remove[i], alias |-> alias]
          /\ \A i \in 1..Len(add) :
               actions[Len(remove) + i] =
                 [op |-> "add", index |-> add[i], alias |-> alias]

\* Two removals and one addition.
C11_Witness ==
    /\ last.op = "getAliasQuery"
    /\ last.args = << <<"a", "b">>, <<"b">>, "al" >>
    /\ ParseActions(last.value, 2) =
         << [op |-> "remove", index |-> "a", alias |-> "al"],
            [op |-> "remove", index |-> "b", alias |-> "al"],
            [op |-> "add", index |-> "b", alias |-> "al"] >>

\* The number of documents of the index that have the colour of the query,
\* among those written (docs) or among those searchable, when the last call
\* was made.
Written(name) == {id \in DocIds : last.before.docs[name][id] > 0}
Coloured(ids, query) == Cardinality({id \in ids : query[2] \in DocColors(id)})

\* Bulk has returned without an error.
Bulked(call) == call.op = "Bulk" /\ call.err = ErrNil

\* C12, as stated: Bulk on the lines of N documents returns N items, and a
\* Search that follows it returns a hit total equal to the number of the
\* documents written to the index that have the colour asked for.
C12_BulkThenSearchCounts ==
    /\ Bulked(last) => Len(last.value.Items.e) = Len(last.args[1]) \div 2
    /\ (last.op = "Search" /\ Bulked(prev)) =>
         /\ last.err = ErrNil
         /\ last.value.Hits.Total = Coloured(Written(last.args[1]), last.args[3])

\* C12, amended: Bulk on the lines of N documents returns N items.  A
\* Search that follows returns a hit total equal to the number of documents
\* with the colour asked for among those the engine has made searchable,
\* which are the documents written once the engine has refreshed the index
\* after the bulk, and not before.
C12_BulkThenSearchCountsSearchable ==
    /\ Bulked(last) => Len(last.value.Items.e) = Len(last.args[1]) \div 2
    /\ (last.op = "Search" /\ Bulked(prev)) =>
         /\ last.err = ErrNil
         /\ last.value.Hits.Total =
              Coloured(last.before.searchable[last.args[1]], last.args[3])
         /\ last.before.searchable[last.args[1]] = Written(last.args[1]) =>
              last.value.Hits.Total
                = Coloured(Written(last.args[1]), last.args[3])

\* Two documents indexed in one bulk, the index refreshed, one of the two
\* found by its colour.
C12_Witness ==
    /\ last.op = "Search"
    /\ Bulked(prev)
    /\ Len(prev.value.Items.e) = 2
    /\ last.args[3] = SearchByColorQuery("blue")
    /\ last.before.searchable["a"] = {"1", "2"}
    /\ Written("a") = {"1", "2"}
    /\ last.value.Hits.Total = 1

\* The call remembered in `prev` was the same method with the same
\* arguments as the call that has returned last.
Repeated ==
    /\ Called
    /\ prev.op = last.op
    /\ prev.args = last.args

\* C13: no call, successful or failed, changes the client's base URL; a
\* call builds the request that any earlier call of the same method with
\* the same arguments built, whatever calls were made and however they
\* ended in between, and its URL begins with the base URL set at
\* construction.
C13_NoStateBetweenCalls ==
    /\ [][Host' = Host]_vars
    /\ [](Repeated => last.req = prev.req)
    /\ [](Called =>
            SubSeq(last.req.url, 1, Len(String(Host))) = String(Host))

\* A call repeated after calls of which one failed, on a client built by
\* NewClientFromUrl from a URL with a path: the same request again.
C13_Witness ==
    /\ Repeated
    /\ last.op = "Search"
    /\ prev.err # ErrNil
    /\ last.err = ErrNil
    /\ Host.Path = <<"/base">>
    /\ last.req.url = String(Host) \o <<"/", "a", "/", "t", "/", "_search">>

\* What a call that has returned is to have returned, by what the engine
\* held of what it names when the engine served it.
Expected(call) ==
    LET op == call.op
        args == call.args
        held == call.before
        value == call.value
        plain == op \in {"CreateIndex", "DeleteIndex", "UpdateIndexSetting",
                         "PutMapping", "UpdateAlias"}
        done == CASE op = "CreateIndex" -> ~held.exists
                  [] op = "UpdateAlias" ->
                       held.exists /\ args[1] \o args[2] # <<>>
                  [] OTHER -> held.exists
    IN  CASE plain ->
               /\ call.err = ErrNil <=> done
               /\ value.Acknowledged <=> done
          [] op = "CreateSearchTemplate" ->
               call.err = ErrNil /\ value.Acknowledged
          [] op = "IndexExists" ->
               call.err = ErrNil /\ value = held.exists
          [] op = "IndexSettings" ->
               call.err = ErrNil <=> held.exists
          [] op = "Status" ->
               call.err = ErrNil /\ (value.Indices.isnil <=> ~held.exists)
          [] op = "GetMapping" ->
               /\ call.err = ErrNil
               /\ value.text.ms = <<>> <=> (held.exists /\ ~held.mapped)
               /\ held.exists => \A i \in DOMAIN value.text.ms :
                                   value.text.ms[i].k = args[1]
          [] op = "Suggest" ->
               /\ call.err = ErrNil
               /\ (\E i \in DOMAIN value.text.ms : value.text.ms[i].k = "_shards")
                    <=> held.exists
          [] op = "InsertDocument" ->
               /\ call.err = ErrNil
               /\ value.ID = args[3]
               /\ value.Version = held.version + 1
               /\ value.Created <=> held.version = 0
          [] op = "Document" ->
               /\ call.err = ErrNil
               /\ value.Found <=> (held.exists /\ held.version > 0)
               /\ value.Found => (value.ID = args[3] /\ value.Version = held.version)
          [] op = "DeleteDocument" ->
               /\ call.err = ErrNil
               /\ value.Found <=> (held.exists /\ held.version > 0)
               /\ value.Found => (value.ID = args[3]
                                    /\ value.Version = held.version + 1)
          [] op = "Bulk" ->
               /\ call.err = ErrNil
               /\ Len(value.Items.e) = Len(args[1]) \div 2
               /\ value.Items.e[1].Index.Version = held.version + 1
          [] op = "Search" ->
               /\ call.err = ErrNil
               /\ value.Hits.Total = IF held.exists THEN held.found ELSE 0
          [] op = "SearchTemplate" ->
               /\ call.err = ErrNil
               /\ value.Hits.Total = IF held.exists /\ held.stored
                                     THEN held.found ELSE 0
          [] op = "MSearch" ->
               /\ call.err = ErrNil
               /\ Len(value.Responses.e) = Len(args[1])
               /\ value.Responses.e[1].Hits.Total
                    = IF held.exists THEN held.found ELSE 0
          [] op = "GetIndicesFromAlias" ->
               /\ call.err = ErrNil
               /\ value.elems \cap IndexNames = held.points

\* C14: with the methods of one client called from several goroutines at
\* once, under every interleaving: each call returns the result that what
\* the engine held, at the moment it served the request of that call, gives
\* for the arguments of that call, whatever the other goroutine called and
\* wherever its call stood; and the client's base URL is left as it was.
C14_ConcurrentCallsIndependent ==
    /\ Host = GoodHost
    /\ \A g \in Goroutines : calls[g].pc = "done" => Expected(calls[g])

\* Two calls in flight at once: IndexExists was answered before the create
\* of the same index and returned after it: it returns that the index does
\* not exist, which was so when the engine served it.
C14_Witness ==
    /\ calls["g1"].pc = "done"
    /\ calls["g1"].op = "CreateIndex"
    /\ calls["g1"].args = <<"a">>
    /\ calls["g1"].value.Acknowledged
    /\ calls["g2"].pc = "done"
    /\ calls["g2"].op = "IndexExists"
    /\ calls["g2"].args = <<"a">>
    /\ calls["g2"].before.exists = FALSE
    /\ calls["g2"].value = FALSE
    /\ indices = {"a"}

\* C15: GetIndicesFromAlias returns only names of indices the alias points
\* to; when the alias points to none and the engine answers 404 with an
\* error body, it returns the empty list or an error, never the keys of
\* that body.
C15_OnlyIndexNames ==
    last.op = "GetIndicesFromAlias" =>
      /\ last.value.elems \subseteq last.before.aliases[last.args[1]]
      /\ last.wire.status = 404 =>
           (last.value.elems = {} \/ last.err # ErrNil)

\* The HEAD request of IndexExists went out and a response came back.
HeadAnswered ==
    /\ last.op = "IndexExists"
    /\ last.ret.requests = 1
    /\ last.wire.kind # "refused"

\* C16: IndexExists returns true exactly when the status of the HEAD
\* response is 200; every other status, 404 and the statuses the transport
\* helper takes for engine failures included, gives false with a nil error;
\* the error is non-nil exactly when the transport fails (the URL does not
\* parse, the connection fails), and the result is false then.
C16_TrueIffStatus200 ==
    last.op = "IndexExists" =>
      /\ last.value = TRUE <=> (HeadAnswered /\ last.wire.status = StatusOK)
      /\ (HeadAnswered /\ last.wire.status # StatusOK) =>
           (last.value = FALSE /\ last.err = ErrNil)
      /\ last.err # ErrNil <=> ~HeadAnswered
      /\ last.err # ErrNil => last.value = FALSE

\* A status sendHTTPRequest would report as an engine failure.
C16_Witness ==
    /\ HeadAnswered
    /\ last.wire.status = 302
    /\ engineFailure(last.wire.status)
    /\ last.value = FALSE
    /\ last.err = ErrNil

\* C17: every method has closed the response body it obtained when it
\* returns, on success and on every error path.
C17_BodiesClosed ==
    Called => last.ret.closed = last.ret.opened

=============================================================================
